---- MODULE Spec2Model ----
(***************************************************************************)
(* Model of the HadesCrypt storage engine: the HAD1 container codec        *)
(* (internal/cryptoengine/crypto.go), the keyfile manager                  *)
(* (package keyfiles), the tar+gzip archiver (internal/archiver) and the   *)
(* folder pipelines of main.go (encryptDirectory, decryptFileAuto).        *)
(*                                                                         *)
(* Cryptographic primitives are ideal: Argon2id and SHA-256 are injective  *)
(* symbolic functions, an AEAD ciphertext byte is a term that records the  *)
(* algorithm, key, nonce and position it was sealed under.                 *)
(***************************************************************************)
EXTENDS Integers, Sequences, FiniteSets, TLC

VARIABLES
    inFile,     \* content of the plaintext input file (sequence of bytes)
    encFile,    \* content of the container file, NoFile while absent
    outFile,    \* content of the decrypt output file, NoFile while absent
    enc,        \* the running/finished EncryptFileWithMode call
    dec,        \* the running/finished DecryptFile call
    sealLog,    \* every (alg, key, nonce) handed to an AEAD Seal, in order
    tamper,     \* what was done to the container between encrypt and decrypt
    km,         \* the KeyfileManager
    kmLast,     \* the last keyfile operation and its outcome
    dirs,       \* folder pipeline: the filesystem around one folder
    job,        \* folder pipeline: position and outcome of the pipeline
    naming,     \* one call of defaultOutputPathForDecrypt: its argument and result
    app         \* the AppState, its worker goroutine and the files of the selection

vars == <<inFile, encFile, outFile, enc, dec, sealLog, tamper, km, kmLast, dirs, job,
          naming, app>>

codecVars  == <<inFile, encFile, outFile, enc, dec, sealLog, tamper>>
keyVars    == <<km, kmLast>>
folderVars == <<dirs, job>>
appVars    == <<naming, app>>

(***************************************************************************)
(* Bounds of the model.                                                    *)
(***************************************************************************)
Radix        == 2   \* values of one digit of a big-endian number field (256 in the program)
ChunkSize    == 2   \* plaintext bytes per chunk (1 << 20 in the program)
MaxPlain     == 4   \* longest plaintext of the codec specification
MaxLongPlain == 34  \* longest plaintext of the long-file specification
MaxKeyfiles  == 3   \* longest keyfile list
TarNameLen   == 4   \* width of the name field of a tar header (models 100)

\* a path of the filesystem: absent, or a regular file with its bytes
NoFile     == [exists |-> FALSE, data |-> <<>>]
File(data) == [exists |-> TRUE, data |-> data]

(***************************************************************************)
(* Program constants (crypto.go:42-49, 62-67).                             *)
(***************************************************************************)
fileMagic       == <<72, 65, 68, 49>>   \* "HAD1"
fileVersion     == 1
saltLengthBytes == 16
noncePrefixLen  == 8
gcmNonceLen     == 12
gcmOverhead     == 16
argonTime       == 1
headerLen       == 42

ModeAES256GCM             == 0
ModeChaCha20              == 1
ModeParanoid              == 2
ModePostQuantumKyber768   == 3
ModePostQuantumDilithium3 == 4
ModePostQuantumSPHINCS    == 5
ModeGnuPG                 == 6

AesGcm   == "AES-256-GCM"
ChaCha   == "ChaCha20-Poly1305"

(***************************************************************************)
(* Fixed-width big-endian numbers (encoding/binary.BigEndian).             *)
(***************************************************************************)
RECURSIVE Pow(_, _)
Pow(b, e) == IF e = 0 THEN 1 ELSE b * Pow(b, e - 1)

\* binary.BigEndian.PutUint32 / PutUint64: w digits, most significant first
PutUint(w, x) == [i \in 1..w |-> ((x % Pow(Radix, w)) \div Pow(Radix, w - i)) % Radix]

RECURSIVE UintFrom(_, _)
UintFrom(b, acc) == IF b = <<>> THEN acc ELSE UintFrom(Tail(b), acc * Radix + Head(b))

\* binary.BigEndian.Uint32 / Uint64
Uint(b) == UintFrom(b, 0)

\* int64(u) for a 64-bit unsigned u: two's complement
ToInt64(u) == IF u >= (Pow(Radix, 8) + 1) \div 2 THEN u - Pow(Radix, 8) ELSE u

\* uint32 increment
IncUint32(c) == (c + 1) % Pow(Radix, 4)

\* Go's / and % truncate toward zero (b > 0 here)
GoDiv(a, b) == IF a >= 0 THEN a \div b ELSE -((-a) \div b)
GoMod(a, b) == a - b * GoDiv(a, b)

min(a, b) == IF a < b THEN a ELSE b

SubSeqFrom(s, from, n) == SubSeq(s, from, from + n - 1)

(***************************************************************************)
(* Ideal primitives.                                                       *)
(***************************************************************************)
\* argon2.IDKey(password, salt, time, argonMemory, argonThreads, keyLen)
Argon2IDKey(password, s, time) == <<password, s, time>>

\* []byte("paranoid")
paranoid == <<112, 97, 114, 97, 110, 111, 105, 100>>

\* cipher.AEAD.Seal(nil, nonce, plaintext, nil): len(plaintext) + 16 bytes
Seal(alg, key, nonce, plaintext) ==
    [i \in 1..(Len(plaintext) + gcmOverhead) |->
        IF i <= Len(plaintext)
        THEN <<"ct", alg, key, nonce, i, plaintext[i]>>
        ELSE <<"tag", alg, key, nonce, i - Len(plaintext), Len(plaintext)>>]

IsCt(b, alg, key, nonce, i) ==
    /\ b[1] = "ct"
    /\ b[2] = alg
    /\ b[3] = key
    /\ b[4] = nonce
    /\ b[5] = i

IsTag(b, alg, key, nonce, j, n) ==
    /\ b[1] = "tag"
    /\ b[2] = alg
    /\ b[3] = key
    /\ b[4] = nonce
    /\ b[5] = j
    /\ b[6] = n

\* an Open that decrypts without verifying the tag
OpenNoTagCheck(alg, key, nonce, ciphertext) ==
    LET n == Len(ciphertext) - gcmOverhead IN
    IF /\ n >= 0
       /\ \A i \in 1..n : IsCt(ciphertext[i], alg, key, nonce, i)
    THEN [ok |-> TRUE,  plain |-> [i \in 1..n |-> ciphertext[i][6]]]
    ELSE [ok |-> FALSE, plain |-> <<>>]

\* cipher.AEAD.Open(nil, nonce, ciphertext, nil)
Open(alg, key, nonce, ciphertext) ==
    LET n == Len(ciphertext) - gcmOverhead IN
    IF /\ n >= 0
       /\ \A i \in 1..n : IsCt(ciphertext[i], alg, key, nonce, i)
       /\ \A j \in 1..gcmOverhead : IsTag(ciphertext[n + j], alg, key, nonce, j, n)
    THEN [ok |-> TRUE,  plain |-> [i \in 1..n |-> ciphertext[i][6]]]
    ELSE [ok |-> FALSE, plain |-> <<>>]

\* postquantum.NewPostQuantumCipher(...).nonceSize
pqNonceSize(mode) ==
    IF mode = ModePostQuantumKyber768 THEN 12
    ELSE IF mode = ModePostQuantumDilithium3 THEN 16
    ELSE 24

pqTagSize == 32

\* pqCipher.GenerateNonce() followed by pqCipher.Encrypt and the prepend of the nonce
pqSealed(mode, key, rnd, plaintext) ==
    [i \in 1..(pqNonceSize(mode) + Len(plaintext) + pqTagSize) |->
        IF i <= pqNonceSize(mode)
        THEN <<"pqnonce", rnd, i>>
        ELSE IF i <= pqNonceSize(mode) + Len(plaintext)
        THEN <<"pqct", mode, key, rnd, i - pqNonceSize(mode), plaintext[i - pqNonceSize(mode)]>>
        ELSE <<"pqtag", mode, key, rnd, i - pqNonceSize(mode) - Len(plaintext), Len(plaintext)>>]

IsAeadMode(mode) == mode \in {ModeAES256GCM, ModeChaCha20, ModeParanoid}
IsPqMode(mode) ==
    mode \in {ModePostQuantumKyber768, ModePostQuantumDilithium3, ModePostQuantumSPHINCS}

\* the first-layer cipher chosen by the switch on mode
aeadOf(mode) == IF mode = ModeChaCha20 THEN ChaCha ELSE AesGcm

\* key2 := argon2.IDKey(append(password, "paranoid"...), salt, argonTime*2, ...)
Key2(password, s) == Argon2IDKey(password \o paranoid, s, argonTime * 2)

\* nonce := noncePrefix || BigEndian(counter)
NonceOf(np, counter) == np \o PutUint(4, counter)

\* nonce2: copy(nonce2, nonce[:min(len(nonce2), len(nonce))]) with NonceSize() = 12
Nonce2Of(nonce) == SubSeq(nonce, 1, min(gcmNonceLen, Len(nonce)))

(***************************************************************************)
(* EncryptFileWithMode (crypto.go:84-278).                                 *)
(***************************************************************************)
\* the 42-byte header, crypto.go:170-197
Header(mode, s, np, totalSize) ==
    fileMagic \o <<fileVersion>> \o <<mode>> \o s \o np
        \o PutUint(4, ChunkSize) \o PutUint(8, totalSize)

\* a loop body that forgets the second layer
SealChunkInnerOnly(mode, password, s, nonce, chunk) ==
    Seal(aeadOf(mode), Argon2IDKey(password, s, argonTime), nonce, chunk)

\* the AEAD branch of the loop body: aead.Seal, then aead2.Seal in paranoid mode
SealChunk(mode, password, s, nonce, chunk) ==
    LET sealed == Seal(aeadOf(mode), Argon2IDKey(password, s, argonTime), nonce, chunk) IN
    IF mode = ModeParanoid
    THEN Seal(ChaCha, Key2(password, s), Nonce2Of(nonce), sealed)
    ELSE sealed

\* what the Seal calls of one chunk add to the log
SealRecords(mode, password, s, nonce) ==
    <<[alg |-> aeadOf(mode), key |-> Argon2IDKey(password, s, argonTime), nonce |-> nonce]>>
    \o (IF mode = ModeParanoid
        THEN <<[alg |-> ChaCha, key |-> Key2(password, s), nonce |-> Nonce2Of(nonce)]>>
        ELSE <<>>)

EncIdle ==
    [pc |-> "idle", password |-> <<>>, mode |-> 0, salt |-> <<>>, noncePrefix |-> <<>>,
     totalSize |-> 0, inPos |-> 0, counter |-> 0, chunks |-> 0, processed |-> 0, err |-> ""]

\* from os.Open to the end of the header write; old is what the output path held
EncBegin(in, old, password, mode, s, np) ==
    LET st == [EncIdle EXCEPT !.password = password, !.mode = mode, !.salt = s,
                              !.noncePrefix = np, !.totalSize = Len(in)] IN
    IF ~(IsAeadMode(mode) \/ IsPqMode(mode))
    THEN [st   |-> [st EXCEPT !.pc = "done", !.err = "unsupported encryption mode"],
          file |-> old, log |-> <<>>]
    ELSE [st   |-> [st EXCEPT !.pc = "loop"],
          file |-> File(Header(mode, s, np, Len(in))), log |-> <<>>]

\* one iteration of the for loop (crypto.go:205-275); rnd is the draw of GenerateNonce
EncNext(in, r, rnd) ==
    LET st     == r.st
        n      == min(ChunkSize, Len(in) - st.inPos)
        chunk  == SubSeqFrom(in, st.inPos + 1, n)
        nonce  == NonceOf(st.noncePrefix, st.counter)
    IN
    IF n = 0
    THEN \* io.EOF: break, return nil
         [r EXCEPT !.st.pc = "done", !.st.err = "nil"]
    ELSE IF n < ChunkSize
    THEN \* io.ErrUnexpectedEOF with n > 0: last partial chunk, always through aead
         IF IsPqMode(st.mode)
         THEN [r EXCEPT !.st.pc = "done", !.st.err = "panic"]
         ELSE [st   |-> [st EXCEPT !.pc = "done", !.err = "nil", !.inPos = @ + n,
                                   !.chunks = @ + 1, !.processed = @ + n],
               file |-> File(r.file.data \o SealChunk(st.mode, st.password, st.salt, nonce, chunk)),
               log  |-> r.log \o SealRecords(st.mode, st.password, st.salt, nonce)]
    ELSE \* a full chunk
         IF IsPqMode(st.mode)
         THEN [st   |-> [st EXCEPT !.inPos = @ + n, !.chunks = @ + 1, !.processed = @ + n,
                                   !.counter = IncUint32(@)],
               file |-> File(r.file.data \o pqSealed(st.mode,
                                    Argon2IDKey(st.password, st.salt, argonTime), rnd, chunk)),
               log  |-> r.log]
         ELSE [st   |-> [st EXCEPT !.inPos = @ + n, !.chunks = @ + 1, !.processed = @ + n,
                                   !.counter = IncUint32(@)],
               file |-> File(r.file.data \o SealChunk(st.mode, st.password, st.salt, nonce, chunk)),
               log  |-> r.log \o SealRecords(st.mode, st.password, st.salt, nonce)]

RECURSIVE EncRun(_, _)
EncRun(in, r) == IF r.st.pc = "done" THEN r ELSE EncRun(in, EncNext(in, r, 0))

\* the whole call, for callers that do not observe its steps
EncryptFileWithMode(in, old, password, mode, s, np) ==
    EncRun(in, EncBegin(in, old, password, mode, s, np))

\* EncryptFile: always the default AES-256-GCM mode (crypto.go:70-72)
EncryptFile(in, old, password, s, np) ==
    EncryptFileWithMode(in, old, password, ModeAES256GCM, s, np)

(***************************************************************************)
(* DecryptFile (crypto.go:283-491).                                        *)
(***************************************************************************)
\* the sequence of io.ReadFull calls and checks of crypto.go:290-333
ParseHeader(f) ==
    LET field(from, n) == SubSeqFrom(f, from, n) IN
    IF Len(f) < 4 THEN [err |-> "io"]
    ELSE IF field(1, 4) # fileMagic THEN [err |-> "invalid file format"]
    ELSE IF Len(f) < 5 THEN [err |-> "io"]
    ELSE IF f[5] # fileVersion THEN [err |-> "unsupported version"]
    ELSE IF Len(f) < headerLen THEN [err |-> "io"]
    ELSE [err         |-> "",
          mode        |-> f[6],
          salt        |-> field(7, saltLengthBytes),
          noncePrefix |-> field(7 + saltLengthBytes, noncePrefixLen),
          chunkSize   |-> Uint(field(31, 4)),
          totalSize   |-> ToInt64(Uint(field(35, 8)))]

\* readCipher: nPlain + gcmOverhead bytes, whatever the mode (crypto.go:402-409)
readCipherNeed(mode, nPlain) == nPlain + gcmOverhead

\* the Open calls of one chunk: aead2.Open then aead.Open in paranoid mode
OpenChunk(mode, password, s, nonce, cipherChunk) ==
    IF mode = ModeParanoid
    THEN LET intermediate == Open(ChaCha, Key2(password, s), Nonce2Of(nonce), cipherChunk) IN
         IF ~intermediate.ok THEN intermediate
         ELSE Open(AesGcm, Argon2IDKey(password, s, argonTime), nonce, intermediate.plain)
    ELSE Open(aeadOf(mode), Argon2IDKey(password, s, argonTime), nonce, cipherChunk)

DecIdle ==
    [pc |-> "idle", password |-> <<>>, mode |-> 0, salt |-> <<>>, noncePrefix |-> <<>>,
     chunkSize |-> 0, totalSize |-> 0, fullChunks |-> 0, lastChunkSize |-> 0,
     i |-> 0, rdPos |-> 0, counter |-> 0, processed |-> 0, err |-> ""]

\* iterations of the loop over full chunks: none when fullChunks <= 0
LoopCount(st) == IF st.fullChunks > 0 THEN st.fullChunks ELSE 0

\* does the call still have a chunk to read: a full one, or the last one
DecPending(st) == st.i < LoopCount(st) \/ (st.i = LoopCount(st) /\ st.lastChunkSize > 0)

\* a DecryptFile that creates its output before it has read the header
DecBeginCreateFirst(file, old, password) ==
    LET st0 == [DecIdle EXCEPT !.password = password, !.pc = "done"]
        h   == ParseHeader(file.data)
    IN
    IF ~file.exists THEN [st |-> [st0 EXCEPT !.err = "open"], out |-> old]
    ELSE IF h.err # "" THEN [st |-> [st0 EXCEPT !.err = h.err], out |-> File(<<>>)]
    ELSE IF ~IsAeadMode(h.mode)
    THEN [st  |-> [st0 EXCEPT !.mode = h.mode, !.err = "unsupported encryption mode"],
          out |-> File(<<>>)]
    ELSE IF h.chunkSize = 0
    THEN [st |-> [st0 EXCEPT !.mode = h.mode, !.err = "panic"], out |-> File(<<>>)]
    ELSE LET full == IF h.totalSize = 0 THEN 0 ELSE GoDiv(h.totalSize, h.chunkSize)
             last == IF h.totalSize = 0 THEN 0 ELSE GoMod(h.totalSize, h.chunkSize)
             st   == [st0 EXCEPT !.mode = h.mode, !.salt = h.salt,
                                 !.noncePrefix = h.noncePrefix, !.chunkSize = h.chunkSize,
                                 !.totalSize = h.totalSize, !.fullChunks = full,
                                 !.lastChunkSize = last, !.rdPos = headerLen]
         IN
         IF DecPending(st)
         THEN [st |-> [st EXCEPT !.pc = "loop"], out |-> File(<<>>)]
         ELSE [st |-> [st EXCEPT !.err = "nil"], out |-> File(<<>>)]

\* from os.Open to the first chunk (crypto.go:284-399); old is what the output path held
DecBegin(file, old, password) ==
    LET st0 == [DecIdle EXCEPT !.password = password, !.pc = "done"]
        h   == ParseHeader(file.data)
    IN
    IF ~file.exists THEN [st |-> [st0 EXCEPT !.err = "open"], out |-> old]
    ELSE IF h.err # "" THEN [st |-> [st0 EXCEPT !.err = h.err], out |-> old]
    ELSE IF ~IsAeadMode(h.mode)
    THEN [st |-> [st0 EXCEPT !.mode = h.mode, !.err = "unsupported encryption mode"], out |-> old]
    ELSE IF h.chunkSize = 0
    THEN \* totalSize / int64(chunkSize): integer divide by zero, after os.Create
         [st |-> [st0 EXCEPT !.mode = h.mode, !.err = "panic"], out |-> File(<<>>)]
    ELSE LET full == IF h.totalSize = 0 THEN 0 ELSE GoDiv(h.totalSize, h.chunkSize)
             last == IF h.totalSize = 0 THEN 0 ELSE GoMod(h.totalSize, h.chunkSize)
             st   == [st0 EXCEPT !.mode = h.mode, !.salt = h.salt,
                                 !.noncePrefix = h.noncePrefix, !.chunkSize = h.chunkSize,
                                 !.totalSize = h.totalSize, !.fullChunks = full,
                                 !.lastChunkSize = last, !.rdPos = headerLen]
         IN
         IF DecPending(st)
         THEN [st |-> [st EXCEPT !.pc = "loop"], out |-> File(<<>>)]
         ELSE [st |-> [st EXCEPT !.err = "nil"], out |-> File(<<>>)]

\* a loop body that writes what it deciphered before it looks at the tag
DecNextWriteFirst(file, r) ==
    LET st     == r.st
        nPlain == IF st.i < LoopCount(st) THEN st.chunkSize ELSE st.lastChunkSize
        need   == readCipherNeed(st.mode, nPlain)
        nonce  == NonceOf(st.noncePrefix, st.counter)
    IN
    IF Len(file.data) - st.rdPos < need
    THEN [r EXCEPT !.st.pc = "done", !.st.err = "io"]
    ELSE LET cipherChunk == SubSeqFrom(file.data, st.rdPos + 1, need)
             opened      == OpenChunk(st.mode, st.password, st.salt, nonce, cipherChunk)
             unchecked   == OpenNoTagCheck(aeadOf(st.mode),
                                           Argon2IDKey(st.password, st.salt, argonTime),
                                           nonce, cipherChunk)
         IN
         IF ~opened.ok
         THEN [st  |-> [st EXCEPT !.pc = "done", !.err = "authentication failed"],
               out |-> File(r.out.data \o unchecked.plain)]
         ELSE LET st1 == [st EXCEPT !.i = @ + 1, !.rdPos = @ + need,
                                    !.counter = IncUint32(@),
                                    !.processed = @ + Len(opened.plain)] IN
              [st  |-> IF DecPending(st1) THEN st1
                       ELSE [st1 EXCEPT !.pc = "done", !.err = "nil"],
               out |-> File(r.out.data \o opened.plain)]

\* one chunk: an iteration of the full-chunk loop, or the last chunk (crypto.go:411-488)
DecNext(file, r) ==
    LET st     == r.st
        nPlain == IF st.i < LoopCount(st) THEN st.chunkSize ELSE st.lastChunkSize
        need   == readCipherNeed(st.mode, nPlain)
        nonce  == NonceOf(st.noncePrefix, st.counter)
    IN
    IF Len(file.data) - st.rdPos < need
    THEN [r EXCEPT !.st.pc = "done", !.st.err = "io"]
    ELSE LET opened == OpenChunk(st.mode, st.password, st.salt, nonce,
                                 SubSeqFrom(file.data, st.rdPos + 1, need)) IN
         IF ~opened.ok
         THEN [r EXCEPT !.st.pc = "done", !.st.err = "authentication failed"]
         ELSE LET st1 == [st EXCEPT !.i = @ + 1, !.rdPos = @ + need,
                                    !.counter = IncUint32(@),
                                    !.processed = @ + Len(opened.plain)] IN
              [st  |-> IF DecPending(st1) THEN st1
                       ELSE [st1 EXCEPT !.pc = "done", !.err = "nil"],
               out |-> File(r.out.data \o opened.plain)]

RECURSIVE DecRun(_, _)
DecRun(file, r) == IF r.st.pc = "done" THEN r ELSE DecRun(file, DecNext(file, r))

\* the whole call, for callers that do not observe its steps
DecryptFile(file, old, password) == DecRun(file, DecBegin(file, old, password))

(***************************************************************************)
(* SHA-256 is collision-free in the model: a digest is the transcript of   *)
(* the hashed bytes behind a marker that is no byte value and that tells   *)
(* the transcript's length, so that a concatenation of digests and bytes   *)
(* decomposes in one way only and no digest equals a string of raw bytes.  *)
(***************************************************************************)
Sha256Sum(data) == <<256 + Len(data)>> \o data

(***************************************************************************)
(* Text.  A string is a sequence of tokens; a token is a character or a    *)
(* word that the code's separators (newline, colon, comma, quote, space)   *)
(* never cut.  The word archive_sha256 is one token and no other token     *)
(* holds it, so strings.Contains(s, "archive_sha256") is membership.       *)
(***************************************************************************)
Contains(s, tok) == \E i \in DOMAIN s : s[i] = tok

RECURSIVE Split(_, _)
Split(s, sep) ==
    IF ~Contains(s, sep) THEN <<s>>
    ELSE LET i == CHOOSE k \in DOMAIN s : s[k] = sep /\ \A j \in 1..(k - 1) : s[j] # sep
         IN <<SubSeq(s, 1, i - 1)>> \o Split(SubSeq(s, i + 1, Len(s)), sep)

RECURSIVE TrimLeft(_, _)
TrimLeft(s, cutset) ==
    IF s # <<>> /\ s[1] \in cutset THEN TrimLeft(Tail(s), cutset) ELSE s

RECURSIVE TrimRight(_, _)
TrimRight(s, cutset) ==
    IF s # <<>> /\ s[Len(s)] \in cutset
    THEN TrimRight(SubSeq(s, 1, Len(s) - 1), cutset) ELSE s

Trim(s, cutset) == TrimRight(TrimLeft(s, cutset), cutset)
TrimSpace(s)    == Trim(s, {" ", "\t", "\n", "\r"})

ToLower(c) ==
    CASE c = "A" -> "a" [] c = "B" -> "b" [] c = "C" -> "c"
      [] c = "D" -> "d" [] c = "E" -> "e" [] c = "F" -> "f"
      [] OTHER -> c

ToUpper(c) ==
    CASE c = "a" -> "A" [] c = "b" -> "B" [] c = "c" -> "C"
      [] c = "d" -> "D" [] c = "e" -> "E" [] c = "f" -> "F"
      [] OTHER -> c

EqualFold(s, t) ==
    /\ Len(s) = Len(t)
    /\ \A i \in DOMAIN s : ToLower(s[i]) = ToLower(t[i])

\* fmt's %q of a string none of whose characters needs an escape
Quote(s) == <<"\"">> \o s \o <<"\"">>

hextable == <<"0", "1", "2", "3", "4", "5", "6", "7",
              "8", "9", "a", "b", "c", "d", "e", "f">>

\* hex.EncodeToString; an element of a model digest may exceed a byte (the
\* length marker of Sha256Sum), so every element takes three digits
EncodeToString(b) ==
    [k \in 1..(3 * Len(b)) |->
        LET e == b[(k + 2) \div 3]
            j == (k - 1) % 3
        IN hextable[((IF j = 0 THEN e \div 256 ELSE IF j = 1 THEN e \div 16 ELSE e) % 16) + 1]]

(***************************************************************************)
(* The archiver (internal/archiver).  A tar stream is a sequence of blocks *)
(* of blockLen bytes: per entry a header block (NUL-padded name, size,     *)
(* typeflag, the magic "ustar"), for a regular file its content padded     *)
(* with NULs to whole blocks; two NUL blocks end the stream.  The gzip     *)
(* layer is its three-byte header (magic 1F 8B, method 8) before the       *)
(* stored stream.                                                          *)
(***************************************************************************)
gzipHeader == <<31, 139, 8>>
ustar      == <<117, 115, 116, 97, 114>>
TypeReg    == 48
TypeDir    == 53
slash      == 47
dot        == <<46>>
blockLen   == TarNameLen + 2 + Len(ustar)

Zeros(n)     == [i \in 1..n |-> 0]
PadTo(s, n)  == s \o Zeros(n - Len(s))
Blocks(n)    == (n + blockLen - 1) \div blockLen

Reg(name, data) == [Name |-> name, Typeflag |-> TypeReg, Data |-> data]
Dir(name)       == [Name |-> name, Typeflag |-> TypeDir, Data |-> <<>>]

\* tar.Writer.WriteHeader
HeaderBlock(e) == PadTo(e.Name, TarNameLen) \o <<Len(e.Data), e.Typeflag>> \o ustar

RECURSIVE TarEntries(_)
TarEntries(entries) ==
    IF entries = <<>> THEN <<>>
    ELSE LET e == Head(entries) IN
         HeaderBlock(e)
            \o (IF e.Typeflag = TypeReg
                THEN PadTo(e.Data, blockLen * Blocks(Len(e.Data))) ELSE <<>>)
            \o TarEntries(Tail(entries))

\* filepath.Walk visits the root first, as ".", then the tree in lexical order
Walk(tree) == <<Dir(dot)>> \o tree

\* the bytes CreateTarGz leaves in the target file
CreateTarGz(tree) == gzipHeader \o TarEntries(Walk(tree)) \o Zeros(2 * blockLen)

RECURSIVE calculateDirSize(_)
calculateDirSize(tree) ==
    IF tree = <<>> THEN 0
    ELSE (IF Head(tree).Typeflag = TypeReg THEN Len(Head(tree).Data) ELSE 0)
            + calculateDirSize(Tail(tree))

\* gzip.NewReader and the reads through it: the stream behind a good header
GzipOk(data)      == Len(data) >= Len(gzipHeader)
                        /\ SubSeq(data, 1, Len(gzipHeader)) = gzipHeader
GzipPayload(data) == SubSeq(data, Len(gzipHeader) + 1, Len(data))

ContainsSeq(s, t) ==
    \E i \in 1..(Len(s) - Len(t) + 1) : SubSeq(s, i, i + Len(t) - 1) = t

IsArchive(f) ==
    /\ f.exists
    /\ Len(f.data) >= 3
    /\ f.data[1] = 31 /\ f.data[2] = 139
    /\ GzipOk(f.data)
    /\ Len(GzipPayload(f.data)) >= blockLen
    /\ LET block == SubSeq(GzipPayload(f.data), 1, blockLen) IN
          \/ ContainsSeq(block, ustar)
          \/ (block[1] # 0 /\ \E i \in 2..blockLen : block[i] = 0)

\* the name field of a header block, up to its first NUL
NameOf(block) ==
    LET n == Cardinality({i \in 1..TarNameLen : \A j \in 1..i : block[j] # 0})
    IN SubSeq(block, 1, n)

\* a directory of the output side: absent, a directory with its entries, or a file
NoPath         == [kind |-> "none", entries |-> {}, data |-> <<>>]
DirOf(entries) == [kind |-> "dir", entries |-> entries, data |-> <<>>]
FileAt(data)   == [kind |-> "file", entries |-> {}, data |-> data]

AncestorDirs(name) ==
    {Dir(SubSeq(name, 1, i - 1)) : i \in {k \in DOMAIN name : name[k] = slash}}

\* os.MkdirAll(filepath.Join(targetDir, name)) on the entries of targetDir
MkdirAll(entries, name) ==
    IF name = dot \/ name = <<>> THEN entries
    ELSE entries \cup AncestorDirs(name) \cup {Dir(name)}

\* os.OpenFile(O_CREATE|O_WRONLY|O_TRUNC) and the copy into it
WriteFile(entries, name, data) ==
    {e \in entries : e.Name # name} \cup {Reg(name, data)}

\* the loop of ExtractTarGz from offset pos of the tar stream; progress holds the
\* processed values handed to onProgress so far (one read per non-empty file: the
\* files of the model are shorter than the 32 KiB buffer)
RECURSIVE ExtractLoop(_, _, _, _)
ExtractLoop(tar, pos, entries, progress) ==
    LET left   == Len(tar) - pos
        block  == SubSeqFrom(tar, pos + 1, blockLen)
        name   == NameOf(block)
        size   == block[TarNameLen + 1]
        flag   == block[TarNameLen + 2]
        parent == AncestorDirs(name)
        next   == pos + blockLen + (IF flag = TypeReg THEN blockLen * Blocks(size) ELSE 0)
        done   == IF progress = <<>> THEN 0 ELSE progress[Len(progress)]
        got    == min(size, Len(tar) - (pos + blockLen))
        report == IF got > 0 THEN Append(progress, done + got) ELSE progress
    IN
    IF left = 0 THEN [err |-> "nil", entries |-> entries, progress |-> progress]
    ELSE IF left < blockLen
         THEN [err |-> "read tar header", entries |-> entries, progress |-> progress]
    ELSE IF block = Zeros(blockLen)
         THEN [err |-> "nil", entries |-> entries, progress |-> progress]
    ELSE IF flag = TypeDir
         THEN ExtractLoop(tar, next, MkdirAll(entries, name), progress)
    ELSE IF flag = TypeReg
         THEN IF next > Len(tar)
              THEN [err      |-> "read from tar",
                    entries  |-> WriteFile(entries \cup parent, name,
                                           SubSeq(tar, pos + blockLen + 1, Len(tar))),
                    progress |-> report]
              ELSE ExtractLoop(tar, next,
                       WriteFile(entries \cup parent, name,
                                 SubSeqFrom(tar, pos + blockLen + 1, size)),
                       report)
    ELSE ExtractLoop(tar, next, entries \cup parent, progress)

\* ExtractTarGz into a directory that holds entries
ExtractTarGz(data, entries) ==
    IF ~GzipOk(data) THEN [err |-> "create gzip reader", entries |-> entries, progress |-> <<>>]
    ELSE ExtractLoop(GzipPayload(data), 0, entries, <<>>)

\* the processed values CreateTarGz hands to onProgress: one per non-empty regular file
RECURSIVE RunningSizes(_, _)
RunningSizes(entries, done) ==
    IF entries = <<>> THEN <<>>
    ELSE LET e == Head(entries)
             n == IF e.Typeflag = TypeReg THEN Len(e.Data) ELSE 0
         IN (IF n > 0 THEN <<done + n>> ELSE <<>>) \o RunningSizes(Tail(entries), done + n)

CreateTarGzProgress(tree) == RunningSizes(Walk(tree), 0)

\* the processed values EncryptFileWithMode and DecryptFile hand to onProgress while
\* they process n plaintext bytes in chunks of c: one per chunk
ChunkProgress(n, c) ==
    [k \in 1..(IF c > 0 THEN (n + c - 1) \div c ELSE 0) |-> min(k * c, n)]

(***************************************************************************)
(* The folder pipelines of main.go: encryptDirectory and decryptFileAuto.  *)
(***************************************************************************)
hashKey == "archive_sha256"

Member(key) == <<" ", " ">> \o Quote(<<key>>) \o <<":", " ">>

\* the Sprintf of encryptDirectory
MetaJSON(folder, fileCount, totalBytes, archiveHash) ==
    <<"{", "\n">>
        \o Member("type") \o Quote(<<"archive-folder">>) \o <<",", "\n">>
        \o Member("original_folder") \o Quote(folder) \o <<",", "\n">>
        \o Member("file_count") \o <<ToString(fileCount), ",", "\n">>
        \o Member("total_size") \o <<ToString(totalBytes), ",", "\n">>
        \o Member(hashKey) \o Quote(archiveHash) \o <<"\n", "}">>

NoMeta     == [exists |-> FALSE, text |-> <<>>]
Meta(text) == [exists |-> TRUE, text |-> text]

FileCount(tree) == Cardinality({i \in DOMAIN tree : tree[i].Typeflag # TypeDir})

\* hex(SHA-256) of a file's bytes
HashHex(data) == EncodeToString(Sha256Sum(data))

\* encryptDirectory up to its return statement: the filesystem and the error
encryptDirectoryBody(fs, password, s, np) ==
    LET tempArchive == File(CreateTarGz(fs.src.tree))
        archiveHash == HashHex(tempArchive.data)
        r           == EncryptFile(tempArchive.data, fs.container, password, s, np)
    IN
    IF r.st.err # "nil"
    THEN [err |-> "encrypt archive",
          fs  |-> [fs EXCEPT !.container = r.file, !.tempArchive = tempArchive]]
    ELSE [err |-> "nil",
          fs  |-> [fs EXCEPT !.container = r.file, !.tempArchive = tempArchive,
                             !.meta = Meta(MetaJSON(fs.src.name, FileCount(fs.src.tree),
                                                    calculateDirSize(fs.src.tree),
                                                    archiveHash))]]

\* encryptDirectory without its deferred os.Remove
encryptDirectoryNoDefer(fs, password, s, np) == encryptDirectoryBody(fs, password, s, np)

\* the filesystem after encryptDirectory(inputDir, outputPath, password), and its error;
\* defer os.Remove(tempArchive) runs on every return
encryptDirectory(fs, password, s, np) ==
    LET r == encryptDirectoryBody(fs, password, s, np) IN
    [r EXCEPT !.fs.tempArchive = NoFile]

isHadesCryptFile(f) == f.exists /\ Len(f.data) >= 4 /\ SubSeq(f.data, 1, 4) = fileMagic

\* the "crude parse": the value of the first line that holds the key and a colon
RECURSIVE ParseExpectedHash(_)
ParseExpectedHash(lines) ==
    IF lines = <<>> THEN <<>>
    ELSE LET parts == Split(Head(lines), ":") IN
         IF Contains(Head(lines), hashKey) /\ Len(parts) >= 2
         THEN Trim(Trim(TrimSpace(parts[2]), {","}), {"\""})
         ELSE ParseExpectedHash(Tail(lines))

\* decryptFileAuto up to its return statement: the filesystem and the error
decryptFileAutoBody(fs, password) ==
    LET expectedSize ==
            IF isHadesCryptFile(fs.container) /\ Len(fs.container.data) >= headerLen
            THEN ToInt64(Uint(SubSeqFrom(fs.container.data, 35, 8))) ELSE -1
        d            == DecryptFile(fs.container, fs.tempDecrypted, password)
        written      == d.out                       \* what DecryptFile left at tempDecrypted
        expectedHash == IF fs.meta.exists
                        THEN ParseExpectedHash(Split(fs.meta.text, "\n")) ELSE <<>>
        calc         == HashHex(d.out.data)
        x            == ExtractTarGz(d.out.data, fs.out.entries)
    IN
    IF d.st.err # "nil"
    THEN [err |-> d.st.err, fs |-> [fs EXCEPT !.tempDecrypted = written]]
    ELSE IF IsArchive(d.out)
    THEN IF expectedHash # <<>> /\ ~EqualFold(calc, expectedHash)
         THEN [err |-> "archive hash mismatch", fs |-> [fs EXCEPT !.tempDecrypted = written]]
         ELSE IF fs.out.kind = "file"
         THEN [err |-> "mkdir", fs |-> [fs EXCEPT !.tempDecrypted = written]]
         ELSE IF x.err # "nil"
         THEN [err |-> "extract archive",
               fs  |-> [fs EXCEPT !.tempDecrypted = written, !.out = DirOf(x.entries)]]
         ELSE [err |-> "nil",
               fs  |-> [fs EXCEPT !.tempDecrypted = written, !.out = DirOf(x.entries),
                                  !.meta = NoMeta]]
    ELSE IF fs.out.kind = "dir"
    THEN [err |-> "rename", fs |-> [fs EXCEPT !.tempDecrypted = written]]
    ELSE IF expectedSize >= 0 /\ Len(d.out.data) # expectedSize
    THEN [err |-> "integrity warning: size mismatch",
          fs  |-> [fs EXCEPT !.tempDecrypted = NoFile, !.out = FileAt(d.out.data)]]
    ELSE [err |-> "nil",
          fs  |-> [fs EXCEPT !.tempDecrypted = NoFile, !.out = FileAt(d.out.data)]]

\* the filesystem after decryptFileAuto(encryptedFile, outputPath, password), and its error;
\* defer os.Remove(tempDecrypted) runs on every return
decryptFileAuto(fs, password) ==
    LET r == decryptFileAutoBody(fs, password) IN
    [r EXCEPT !.fs.tempDecrypted = NoFile]

\* decryptDirectory up to its return statement
decryptDirectoryBody(fs, password) ==
    LET d == DecryptFile(fs.container, fs.tempArchive, password)
        x == ExtractTarGz(d.out.data, fs.out.entries)
    IN
    IF d.st.err # "nil"
    THEN [err |-> "decrypt file", fs |-> [fs EXCEPT !.tempArchive = d.out]]
    ELSE IF ~IsArchive(d.out)
    THEN IF fs.out.kind = "dir"
         THEN [err |-> "rename", fs |-> [fs EXCEPT !.tempArchive = d.out]]
         ELSE [err |-> "nil",
               fs  |-> [fs EXCEPT !.tempArchive = NoFile, !.out = FileAt(d.out.data)]]
    ELSE IF fs.out.kind = "file"
    THEN [err |-> "extract archive", fs |-> [fs EXCEPT !.tempArchive = d.out]]
    ELSE IF x.err # "nil"
    THEN [err |-> "extract archive",
          fs  |-> [fs EXCEPT !.tempArchive = d.out, !.out = DirOf(x.entries)]]
    ELSE [err |-> "nil", fs |-> [fs EXCEPT !.tempArchive = d.out, !.out = DirOf(x.entries)]]

\* the filesystem after decryptDirectory(encryptedFile, outputDir, password), and its error;
\* defer os.Remove(tempArchive) runs on every return
decryptDirectory(fs, password) ==
    LET r == decryptDirectoryBody(fs, password) IN
    [r EXCEPT !.fs.tempArchive = NoFile]

\* the wrappers of encryptDirectory and decryptDirectory around onProgress: the first
\* phase reports int64(processed/total * 0.5 * total), the second
\* int64((0.5 + processed/total * 0.5) * total); nothing is reported when total is 0
FirstHalf(seq, total) ==
    IF total > 0 THEN [i \in DOMAIN seq |-> (seq[i] * total) \div (2 * total)] ELSE <<>>
SecondHalf(seq, total) ==
    IF total > 0 THEN [i \in DOMAIN seq |-> (total * total + seq[i] * total) \div (2 * total)]
    ELSE <<>>

\* the processed values encryptDirectory hands to its onProgress, in order
encryptDirectoryProgress(fs, password, s, np) ==
    LET tempArchive == CreateTarGz(fs.src.tree)
        r           == EncryptFile(tempArchive, fs.container, password, s, np)
    IN FirstHalf(CreateTarGzProgress(fs.src.tree), calculateDirSize(fs.src.tree))
           \o SecondHalf(ChunkProgress(r.st.processed, ChunkSize), Len(tempArchive))

\* the processed values decryptFileAuto hands to its onProgress, in order: those of
\* DecryptFile, then those of ExtractTarGz when the extraction is reached
decryptFileAutoProgress(fs, password) ==
    LET d            == DecryptFile(fs.container, fs.tempDecrypted, password)
        expectedHash == IF fs.meta.exists
                        THEN ParseExpectedHash(Split(fs.meta.text, "\n")) ELSE <<>>
        extracting   == /\ d.st.err = "nil"
                        /\ IsArchive(d.out)
                        /\ ~(expectedHash # <<>>
                                /\ ~EqualFold(HashHex(d.out.data), expectedHash))
                        /\ fs.out.kind # "file"
    IN ChunkProgress(d.st.processed, d.st.chunkSize)
           \o (IF extracting THEN ExtractTarGz(d.out.data, fs.out.entries).progress ELSE <<>>)

\* the processed values decryptDirectory hands to its onProgress, in order
decryptDirectoryProgress(fs, password) ==
    LET d          == DecryptFile(fs.container, fs.tempArchive, password)
        extracting == d.st.err = "nil" /\ IsArchive(d.out) /\ fs.out.kind # "file"
    IN FirstHalf(ChunkProgress(d.st.processed, d.st.chunkSize), d.st.totalSize)
           \o (IF extracting
               THEN SecondHalf(ExtractTarGz(d.out.data, fs.out.entries).progress,
                               Len(d.out.data))
               ELSE <<>>)

(***************************************************************************)
(* Paths.  A path is the sequence of its bytes, like the names in a tar    *)
(* header.                                                                 *)
(***************************************************************************)
\* strings.ToLower, strings.ToUpper on ASCII
LowerRune(c) == IF c \in 65..90 THEN c + 32 ELSE c
UpperRune(c) == IF c \in 97..122 THEN c - 32 ELSE c
StringsToLower(s) == [i \in DOMAIN s |-> LowerRune(s[i])]
StringsToUpper(s) == [i \in DOMAIN s |-> UpperRune(s[i])]

\* strings.HasSuffix, strings.TrimSuffix
HasSuffix(s, suffix) ==
    Len(s) >= Len(suffix) /\ SubSeq(s, Len(s) - Len(suffix) + 1, Len(s)) = suffix
TrimSuffix(s, suffix) ==
    IF HasSuffix(s, suffix) THEN SubSeq(s, 1, Len(s) - Len(suffix)) ELSE s

\* filepath.Ext: the suffix that begins at the last dot of the last path element
RECURSIVE ExtFrom(_, _)
ExtFrom(path, i) ==
    IF i < 1 \/ path[i] = slash THEN <<>>
    ELSE IF path[i] = dot[1] THEN SubSeq(path, i, Len(path))
    ELSE ExtFrom(path, i - 1)
Ext(path) == ExtFrom(path, Len(path))

extGpg        == <<46, 103, 112, 103>>    \* ".gpg"
extPgp        == <<46, 112, 103, 112>>    \* ".pgp"
extHades      == <<46, 104, 97, 100, 101, 115>>    \* ".hades"
extHadescrypt == <<46, 104, 97, 100, 101, 115, 99, 114, 121, 112, 116>>    \* ".hadescrypt"
extHeistcrypt == <<46, 104, 101, 105, 115, 116, 99, 114, 121, 112, 116>>    \* ".heistcrypt"
extDec        == <<46, 100, 101, 99>>    \* ".dec"

defaultOutputPathForDecrypt(inPath) ==
    LET lowerPath == StringsToLower(inPath) IN
    IF HasSuffix(lowerPath, extGpg) THEN TrimSuffix(inPath, extGpg)
    ELSE IF HasSuffix(lowerPath, extPgp) THEN TrimSuffix(inPath, extPgp)
    ELSE IF HasSuffix(lowerPath, extHades) THEN TrimSuffix(inPath, extHades)
    ELSE IF HasSuffix(lowerPath, extHadescrypt) \/ HasSuffix(lowerPath, extHeistcrypt)
    THEN TrimSuffix(inPath, Ext(inPath))
    ELSE inPath \o extDec

(***************************************************************************)
(* The codec as a state machine: one encryption of inFile into encFile,    *)
(* an optional modification of the container, one decryption into outFile. *)
(***************************************************************************)
PlainOf(n) == [i \in 1..n |-> 64 + i]

Passwords     == {<<120>>, <<112, 119>>}            \* "x", "pw"
Salts         == {[i \in 1..saltLengthBytes |-> 3], [i \in 1..saltLengthBytes |-> 4]}
NoncePrefixes == {[i \in 1..noncePrefixLen |-> 5]}
Modes         == ModeAES256GCM..ModeGnuPG
PqRandoms     == {0, 1}

NoTamper == [kind |-> "none", pos |-> 0]

\* the values a modified header byte may take
TamperValues(pos) ==
    IF pos = 6 THEN 0..7
    ELSE IF pos > 30 THEN 0..(Radix - 1)
    ELSE {0, 2}

InitCodec(maxLen) ==
    /\ inFile \in {PlainOf(n) : n \in 0..maxLen}
    /\ encFile = NoFile
    /\ outFile = NoFile
    /\ enc = EncIdle
    /\ dec = DecIdle
    /\ sealLog = <<>>
    /\ tamper = NoTamper

InitKeys ==
    /\ km = [Keyfiles |-> <<>>, RequireOrder |-> FALSE]
    /\ kmLast = [op |-> "NewKeyfileManager", err |-> "nil"]

\* trees, written in the order filepath.Walk visits them
EmptyTree == <<>>
OneFile   == <<Reg(<<97>>, [i \in 1..(blockLen + 1) |-> 7])>>
Nested    == <<Reg(<<97>>, <<>>), Dir(<<100>>), Reg(<<100, slash, 98>>, <<1, 2>>)>>
Trees     == {EmptyTree, OneFile, Nested}

\* base names of the folder
FolderNames == {<<"docs">>, <<"archive_sha256">>, <<":", "archive_sha256">>}

DirSrc(name, tree)  == [kind |-> "dir", name |-> name, tree |-> tree, data |-> <<>>]
FileSrc(name, data) == [kind |-> "file", name |-> name, tree |-> <<>>, data |-> data]

Sources ==
    {DirSrc(name, tree) : name \in FolderNames, tree \in Trees}
        \cup {FileSrc(<<"notes">>, PlainOf(3)), FileSrc(<<"backup">>, CreateTarGz(Nested))}

JobIdle == [pc |-> "idle", password |-> <<>>, encErr |-> "", decPassword |-> <<>>,
            decErr |-> "", sidecar |-> "none", via |-> "", progress |-> <<>>]

InitFolder(sources) ==
    /\ dirs \in {[src |-> src, container |-> NoFile, meta |-> NoMeta, tempArchive |-> NoFile,
                  tempDecrypted |-> NoFile, out |-> NoPath] : src \in sources}
    /\ job = JobIdle

NamingIdle == [pc |-> "idle", inPath |-> <<>>, outPath |-> <<>>]
AppIdle ==
    [selectedPath |-> <<>>, selectedPaths |-> <<>>, password |-> <<>>,
     confirmPassword |-> <<>>, encryptionMode |-> ModeAES256GCM, deleteAfter |-> TRUE,
     recursiveMode |-> FALSE, cancelRequested |-> FALSE,
     fs |-> <<>>, history |-> <<>>, workers |-> <<>>, ui |-> <<>>, removed |-> {}]

\* the parts of the state a specification does not use
InitUnused == naming = NamingIdle /\ app = AppIdle

EncStart(password, mode, s, np) ==
    /\ enc.pc = "idle"
    /\ LET r == EncBegin(inFile, encFile, password, mode, s, np) IN
        /\ enc' = r.st
        /\ encFile' = r.file
        /\ sealLog' = r.log
    /\ UNCHANGED <<inFile, outFile, dec, tamper, keyVars, folderVars, appVars>>

EncChunk ==
    /\ enc.pc = "loop"
    /\ \E rnd \in PqRandoms :
        LET r == EncNext(inFile, [st |-> enc, file |-> encFile, log |-> sealLog], rnd) IN
        /\ enc' = r.st
        /\ encFile' = r.file
        /\ sealLog' = r.log
    /\ UNCHANGED <<inFile, outFile, dec, tamper, keyVars, folderVars, appVars>>

CanTamper ==
    /\ enc.pc = "done"
    /\ dec.pc = "idle"
    /\ encFile.exists
    /\ tamper = NoTamper

\* someone changes one byte of the header
FlipHeaderByte(pos, v) ==
    /\ CanTamper
    /\ pos \in 1..min(headerLen, Len(encFile.data))
    /\ v # encFile.data[pos]
    /\ encFile' = [encFile EXCEPT !.data[pos] = v]
    /\ tamper' = [kind |-> "header", pos |-> pos]
    /\ UNCHANGED <<inFile, outFile, enc, dec, sealLog, keyVars, folderVars, appVars>>

\* someone changes one byte of the body
FlipBodyByte(pos) ==
    /\ CanTamper
    /\ pos \in (headerLen + 1)..Len(encFile.data)
    /\ encFile' = [encFile EXCEPT !.data[pos] = <<"flipped">>]
    /\ tamper' = [kind |-> "body", pos |-> pos]
    /\ UNCHANGED <<inFile, outFile, enc, dec, sealLog, keyVars, folderVars, appVars>>

\* someone appends a byte to the container
AppendTrailing ==
    /\ CanTamper
    /\ encFile' = [encFile EXCEPT !.data = @ \o << <<"surplus">> >>]
    /\ tamper' = [kind |-> "trailing", pos |-> Len(encFile.data) + 1]
    /\ UNCHANGED <<inFile, outFile, enc, dec, sealLog, keyVars, folderVars, appVars>>

DecStart(password) ==
    /\ enc.pc = "done"
    /\ dec.pc = "idle"
    /\ LET r == DecBegin(encFile, outFile, password) IN
        /\ dec' = r.st
        /\ outFile' = r.out
    /\ UNCHANGED <<inFile, encFile, enc, sealLog, tamper, keyVars, folderVars, appVars>>

DecChunk ==
    /\ dec.pc = "loop"
    /\ LET r == DecNext(encFile, [st |-> dec, out |-> outFile]) IN
        /\ dec' = r.st
        /\ outFile' = r.out
    /\ UNCHANGED <<inFile, encFile, enc, sealLog, tamper, keyVars, folderVars, appVars>>

Init ==
    InitCodec(MaxPlain) /\ InitKeys /\ InitFolder({DirSrc(<<"docs">>, EmptyTree)}) /\ InitUnused

Next ==
    \/ \E password \in Passwords, mode \in Modes, s \in Salts, np \in NoncePrefixes :
          EncStart(password, mode, s, np)
    \/ EncChunk
    \/ \E pos \in 1..headerLen : \E v \in TamperValues(pos) : FlipHeaderByte(pos, v)
    \/ \E pos \in (headerLen + 1)..(headerLen + MaxPlain * (1 + 2 * gcmOverhead)) :
          FlipBodyByte(pos)
    \/ AppendTrailing
    \/ \E password \in Passwords : DecStart(password)
    \/ DecChunk

Spec == Init /\ [][Next]_vars

(***************************************************************************)
(* Long files: encryption only, of plaintexts long enough for the chunk    *)
(* counter to pass the largest value of its 4-digit field.                 *)
(***************************************************************************)
AeadModes == {ModeAES256GCM, ModeChaCha20, ModeParanoid}

(***************************************************************************)
(* Decryption onto an output path that holds a file already, of a          *)
(* container that may also have been cut short inside its header.          *)
(***************************************************************************)
oldOutput == <<111, 108, 100>>         \* "old"

\* the lengths a container is cut to: inside the magic, after it, after the version,
\* after the mode byte, one byte short of the whole header
TruncatedLengths == {0, 3, 4, 5, 6, headerLen - 1}

\* someone cuts the container short
TruncateHeader(n) ==
    /\ CanTamper
    /\ n < Len(encFile.data)
    /\ encFile' = [encFile EXCEPT !.data = SubSeq(@, 1, n)]
    /\ tamper' = [kind |-> "truncated", pos |-> n]
    /\ UNCHANGED <<inFile, outFile, enc, dec, sealLog, keyVars, folderVars, appVars>>

InitOverwrite ==
    /\ inFile \in {PlainOf(n) : n \in 0..MaxPlain}
    /\ encFile = NoFile
    /\ outFile = File(oldOutput)
    /\ enc = EncIdle
    /\ dec = DecIdle
    /\ sealLog = <<>>
    /\ tamper = NoTamper
    /\ InitKeys /\ InitFolder({DirSrc(<<"docs">>, EmptyTree)}) /\ InitUnused

NextOverwrite ==
    \/ Next
    \/ \E n \in TruncatedLengths : TruncateHeader(n)

SpecOverwrite == InitOverwrite /\ [][NextOverwrite]_vars

InitLong ==
    InitCodec(MaxLongPlain) /\ InitKeys /\ InitFolder({DirSrc(<<"docs">>, EmptyTree)}) /\ InitUnused

NextLong ==
    \/ \E password \in Passwords, mode \in AeadModes, s \in Salts, np \in NoncePrefixes :
          EncStart(password, mode, s, np)
    \/ EncChunk

SpecLong == InitLong /\ [][NextLong]_vars

(***************************************************************************)
(* The keyfile manager (package keyfiles) and the dialogs of main.go that  *)
(* drive it.                                                               *)
(***************************************************************************)
\* the files a keyfile path may name
KeyPaths == {"a.key", "b.key", "c.key", "empty.key", "missing.key", "keys.d"}

\* info.IsDir() of the path
KeyIsDir(path) == path = "keys.d"

KeyDisk(path) ==
    CASE path = "a.key"     -> File(<<1>>)
      [] path = "b.key"     -> File(<<2>>)
      [] path = "c.key"     -> File(<<1>>)          \* a copy of a.key
      [] path = "empty.key" -> File(<<>>)
      [] path = "keys.d"    -> File(<<>>)           \* a directory: os.Open succeeds
      [] OTHER              -> NoFile

NewKeyfileManager == [Keyfiles |-> <<>>, RequireOrder |-> FALSE]

Keyfile(path, hash) == [Path |-> path, Hash |-> hash]

ValidateKeyfile(path) ==
    IF ~KeyDisk(path).exists THEN "stat keyfile"
    ELSE IF KeyIsDir(path) THEN "keyfile cannot be a directory"
    ELSE IF Len(KeyDisk(path).data) = 0 THEN "keyfile cannot be empty"
    ELSE "nil"

\* the manager after the call, and the call's error
AddKeyfile(m, path) ==
    IF ~KeyDisk(path).exists
    THEN [km |-> m, err |-> "open keyfile"]
    ELSE IF KeyIsDir(path)
    THEN \* io.Copy reads from a directory: the read fails
         [km |-> m, err |-> "hash keyfile"]
    ELSE [km  |-> [m EXCEPT !.Keyfiles =
                       Append(@, Keyfile(path, Sha256Sum(KeyDisk(path).data)))],
          err |-> "nil"]

RemoveAt(s, i) == SubSeq(s, 1, i - 1) \o SubSeq(s, i + 1, Len(s))

RemoveKeyfile(m, path) ==
    LET hits == {i \in DOMAIN m.Keyfiles : m.Keyfiles[i].Path = path} IN
    IF hits = {} THEN m
    ELSE [m EXCEPT !.Keyfiles = RemoveAt(@, CHOOSE i \in hits : \A j \in hits : i <= j)]

Clear(m) == [m EXCEPT !.Keyfiles = <<>>]

\* what GetCombinedKey writes to the hasher for the keyfiles from index i on
\* (i counts from 0 as in the code)
RECURSIVE hasherWrites(_, _)
hasherWrites(m, i) ==
    IF i >= Len(m.Keyfiles) THEN <<>>
    ELSE m.Keyfiles[i + 1].Hash
            \o (IF m.RequireOrder THEN <<i % 256>> ELSE <<>>)
            \o hasherWrites(m, i + 1)

GetCombinedKey(m, password) == Sha256Sum(password \o hasherWrites(m, 0))

\* fromIndex and toIndex count from 0 as in the code
MoveKeyfile(m, fromIndex, toIndex) ==
    IF \/ fromIndex < 0 \/ fromIndex >= Len(m.Keyfiles)
       \/ toIndex < 0   \/ toIndex >= Len(m.Keyfiles)
    THEN m
    ELSE LET keyfile == m.Keyfiles[fromIndex + 1]
             rest    == RemoveAt(m.Keyfiles, fromIndex + 1)
             to      == IF toIndex > fromIndex THEN toIndex - 1 ELSE toIndex
         IN [m EXCEPT !.Keyfiles =
                SubSeq(rest, 1, to) \o <<keyfile>> \o SubSeq(rest, to + 1, Len(rest))]

HasKeyfiles(m) == Len(m.Keyfiles) > 0

\* the file dialog's callback: validate, add, refresh
showKeyfileDialog(path) ==
    /\ Len(km.Keyfiles) < MaxKeyfiles
    /\ IF ValidateKeyfile(path) # "nil"
       THEN /\ kmLast' = [op |-> "showKeyfileDialog", err |-> "Invalid keyfile"]
            /\ km' = km
       ELSE LET r == AddKeyfile(km, path) IN
            /\ km' = r.km
            /\ kmLast' = [op |-> "showKeyfileDialog",
                          err |-> IF r.err = "nil" THEN "nil" ELSE "Failed to add keyfile"]
    /\ UNCHANGED <<codecVars, folderVars, appVars>>

KmRemove(path) ==
    /\ km' = RemoveKeyfile(km, path)
    /\ kmLast' = [op |-> "RemoveKeyfile", err |-> "nil"]
    /\ UNCHANGED <<codecVars, folderVars, appVars>>

\* the "Clear" button
KmClear ==
    /\ km' = Clear(km)
    /\ kmLast' = [op |-> "Clear", err |-> "nil"]
    /\ UNCHANGED <<codecVars, folderVars, appVars>>

KmMove(fromIndex, toIndex) ==
    /\ km' = MoveKeyfile(km, fromIndex, toIndex)
    /\ kmLast' = [op |-> "MoveKeyfile", err |-> "nil"]
    /\ UNCHANGED <<codecVars, folderVars, appVars>>

\* the "Require correct keyfile order" check box
requireOrderCheck(checked) ==
    /\ km' = [km EXCEPT !.RequireOrder = checked]
    /\ kmLast' = [op |-> "requireOrderCheck", err |-> "nil"]
    /\ UNCHANGED <<codecVars, folderVars, appVars>>

InitKeyfiles ==
    InitCodec(0) /\ InitKeys /\ InitFolder({DirSrc(<<"docs">>, EmptyTree)}) /\ InitUnused

NextKeys ==
    \/ \E path \in KeyPaths : showKeyfileDialog(path)
    \/ \E path \in KeyPaths : KmRemove(path)
    \/ KmClear
    \/ \E fromIndex, toIndex \in -1..MaxKeyfiles : KmMove(fromIndex, toIndex)
    \/ \E checked \in BOOLEAN : requireOrderCheck(checked)

SpecKeys == InitKeyfiles /\ [][NextKeys]_vars

(***************************************************************************)
(* The exported functions of package keyfiles, called with any argument.   *)
(* kmLast keeps the arguments of the last call and the list before it.     *)
(***************************************************************************)
Called(op, err, path, fromIndex, toIndex) ==
    [op |-> op, err |-> err, path |-> path, fromIndex |-> fromIndex, toIndex |-> toIndex,
     before |-> km.Keyfiles]

AddKeyfileCall(path) ==
    /\ Len(km.Keyfiles) < MaxKeyfiles
    /\ km' = AddKeyfile(km, path).km
    /\ kmLast' = Called("AddKeyfile", AddKeyfile(km, path).err, path, 0, 0)
    /\ UNCHANGED <<codecVars, folderVars, appVars>>

MoveKeyfileCall(fromIndex, toIndex) ==
    /\ km' = MoveKeyfile(km, fromIndex, toIndex)
    /\ kmLast' = Called("MoveKeyfile", "nil", "", fromIndex, toIndex)
    /\ UNCHANGED <<codecVars, folderVars, appVars>>

NextKeyfiles ==
    \/ \E path \in KeyPaths : AddKeyfileCall(path)
    \/ \E fromIndex, toIndex \in -1..MaxKeyfiles : MoveKeyfileCall(fromIndex, toIndex)
    \/ \E path \in KeyPaths : KmRemove(path)
    \/ KmClear

SpecKeyfiles == InitKeyfiles /\ [][NextKeyfiles]_vars

(***************************************************************************)
(* The folder pipeline as a state machine: one item (a folder or a regular *)
(* file) is encrypted, someone may rewrite or remove the sidecar, and the  *)
(* container is decrypted by decryptFileAuto to a fresh output path.       *)
(***************************************************************************)
\* doEncrypt on a folder with recursive mode off (main.go:720)
EncryptFolder(password, s, np) ==
    /\ job.pc = "idle"
    /\ dirs.src.kind = "dir"
    /\ LET r == encryptDirectory(dirs, password, s, np) IN
        /\ dirs' = r.fs
        /\ job' = [job EXCEPT !.pc = "encrypted", !.password = password, !.encErr = r.err,
                              !.sidecar = IF r.fs.meta.exists THEN "written" ELSE "none",
                              !.progress = encryptDirectoryProgress(dirs, password, s, np)]
    /\ UNCHANGED <<codecVars, keyVars, appVars>>

\* doEncrypt on a regular file (main.go:724)
EncryptSingle(password, mode, s, np) ==
    /\ job.pc = "idle"
    /\ dirs.src.kind = "file"
    /\ LET r == EncryptFileWithMode(dirs.src.data, dirs.container, password, mode, s, np) IN
        /\ dirs' = [dirs EXCEPT !.container = r.file]
        /\ job' = [job EXCEPT !.pc = "encrypted", !.password = password, !.encErr = r.st.err,
                              !.progress = ChunkProgress(r.st.processed, ChunkSize)]
    /\ UNCHANGED <<codecVars, keyVars, appVars>>

\* a hash of the same length that differs in its last digit
WrongHash(h) == [h EXCEPT ![Len(h)] = IF @ = "0" THEN "1" ELSE "0"]
UpperHash(h) == [i \in DOMAIN h |-> ToUpper(h[i])]

\* someone rewrites the sidecar with another value of archive_sha256
RewriteSidecar(how) ==
    /\ job.pc = "encrypted"
    /\ job.sidecar = "written"
    /\ LET tree == dirs.src.tree
           hash == HashHex(CreateTarGz(tree))
       IN dirs' = [dirs EXCEPT !.meta =
                      Meta(MetaJSON(dirs.src.name, FileCount(tree), calculateDirSize(tree),
                                    IF how = "wrong hash" THEN WrongHash(hash)
                                    ELSE UpperHash(hash)))]
    /\ job' = [job EXCEPT !.sidecar = how]
    /\ UNCHANGED <<codecVars, keyVars, appVars>>

\* someone removes the sidecar
RemoveSidecar ==
    /\ job.pc = "encrypted"
    /\ job.sidecar = "written"
    /\ dirs' = [dirs EXCEPT !.meta = NoMeta]
    /\ job' = [job EXCEPT !.sidecar = "removed"]
    /\ UNCHANGED <<codecVars, keyVars, appVars>>

\* doDecrypt on a HadesCrypt container (main.go:844-845)
DecryptAuto(password) ==
    /\ job.pc = "encrypted"
    /\ isHadesCryptFile(dirs.container)
    /\ LET r == decryptFileAuto(dirs, password) IN
        /\ dirs' = r.fs
        /\ job' = [job EXCEPT !.pc = "decrypted", !.decPassword = password, !.decErr = r.err,
                              !.via = "decryptFileAuto",
                              !.progress = decryptFileAutoProgress(dirs, password)]
    /\ UNCHANGED <<codecVars, keyVars, appVars>>

\* a call of decryptDirectory on the container
DecryptDirectoryCall(password) ==
    /\ job.pc = "encrypted"
    /\ LET r == decryptDirectory(dirs, password) IN
        /\ dirs' = r.fs
        /\ job' = [job EXCEPT !.pc = "decrypted", !.decPassword = password, !.decErr = r.err,
                              !.via = "decryptDirectory",
                              !.progress = decryptDirectoryProgress(dirs, password)]
    /\ UNCHANGED <<codecVars, keyVars, appVars>>

InitFolders == InitCodec(0) /\ InitKeys /\ InitFolder(Sources) /\ InitUnused

NextFolder ==
    \/ \E password \in Passwords, s \in Salts, np \in NoncePrefixes :
          EncryptFolder(password, s, np)
    \/ \E password \in Passwords, mode \in AeadModes, s \in Salts, np \in NoncePrefixes :
          EncryptSingle(password, mode, s, np)
    \/ \E how \in {"wrong hash", "upper case"} : RewriteSidecar(how)
    \/ RemoveSidecar
    \/ \E password \in Passwords : DecryptAuto(password)
    \/ \E password \in Passwords : DecryptDirectoryCall(password)

SpecFolder == InitFolders /\ [][NextFolder]_vars

(***************************************************************************)
(* defaultOutputPathForDecrypt as a state machine: one call on a path.     *)
(***************************************************************************)
\* first letter in upper case
Capitalized(ext) == [i \in DOMAIN ext |-> IF i = 2 THEN UpperRune(ext[i]) ELSE ext[i]]

\* "n", "d/n", "n.t", "d.x/n"
PathStems == {<<110>>, <<100, slash, 110>>, <<110, 46, 116>>, <<100, 46, 120, slash, 110>>}
PathTails ==
    LET known == {extGpg, extPgp, extHades, extHadescrypt, extHeistcrypt} IN
    known \cup {StringsToUpper(e) : e \in known} \cup {Capitalized(e) : e \in known}
        \cup {<<>>, extDec, <<46, 116, 120, 116>>, <<103, 112, 103>>}    \* "", ".txt", "gpg"
InPaths == {stem \o tail : stem \in PathStems, tail \in PathTails}

InitNaming ==
    /\ naming \in {[pc |-> "idle", inPath |-> inPath, outPath |-> <<>>] : inPath \in InPaths}
    /\ app = AppIdle

InitPaths ==
    InitCodec(0) /\ InitKeys /\ InitFolder({DirSrc(<<"docs">>, EmptyTree)}) /\ InitNaming

\* doDecrypt computes the output path of the selected file (main.go:751)
DefaultOutputPath ==
    /\ naming.pc = "idle"
    /\ naming' = [naming EXCEPT !.pc = "done",
                                !.outPath = defaultOutputPathForDecrypt(naming.inPath)]
    /\ UNCHANGED <<codecVars, keyVars, folderVars, app>>

NextPaths == DefaultOutputPath

SpecPaths == InitPaths /\ [][NextPaths]_vars

(***************************************************************************)
(* The application (main.go): the AppState, the Encrypt and Cancel         *)
(* buttons and the worker goroutine that doEncrypt launches.  The files of *)
(* the selection live in app.fs, a function from paths to entries.         *)
(***************************************************************************)
RegularFile(data) == [kind |-> "file", data |-> data, text |-> <<>>]
TextFile(text)    == [kind |-> "file", data |-> <<>>, text |-> text]
Directory         == [kind |-> "dir", data |-> <<>>, text |-> <<>>]

Stat(fs, p)      == p \in DOMAIN fs
IsDir(fs, p)     == Stat(fs, p) /\ fs[p].kind = "dir"
IsRegular(fs, p) == Stat(fs, p) /\ fs[p].kind = "file"
Size(fs, p)      == Len(fs[p].data) + Len(fs[p].text)

\* what lies below the directory p
Inside(fs, p) ==
    {q \in DOMAIN fs : Len(q) > Len(p) + 1 /\ SubSeq(q, 1, Len(p) + 1) = p \o <<slash>>}

\* os.Remove (fails on a missing path and on a directory that is not empty), os.RemoveAll
osRemove(fs, p) ==
    IF Stat(fs, p) /\ Inside(fs, p) = {} THEN [q \in DOMAIN fs \ {p} |-> fs[q]] ELSE fs
osRemoveAll(fs, p) == [q \in DOMAIN fs \ ({p} \cup Inside(fs, p)) |-> fs[q]]

WriteEntry(fs, p, e) == [q \in DOMAIN fs \cup {p} |-> IF q = p THEN e ELSE fs[q]]

\* the file at p as the engine sees it, and the engine's output file put at p
OpenFile(fs, p)   == IF IsRegular(fs, p) THEN File(fs[p].data) ELSE NoFile
PutFile(fs, p, f) == IF f.exists THEN WriteEntry(fs, p, RegularFile(f.data)) ELSE fs

\* the order in which filepath.Walk visits the files of a directory
LexLess(a, b) ==
    \E i \in 1..(min(Len(a), Len(b)) + 1) :
        /\ SubSeq(a, 1, i - 1) = SubSeq(b, 1, i - 1)
        /\ \/ (i > Len(a) /\ i <= Len(b))
           \/ (i <= Len(a) /\ i <= Len(b) /\ a[i] < b[i])

RECURSIVE InOrder(_)
InOrder(S) ==
    IF S = {} THEN <<>>
    ELSE LET first == CHOOSE x \in S : \A y \in S \ {x} : LexLess(x, y)
         IN <<first>> \o InOrder(S \ {first})

WalkFiles(fs, p) == InOrder({q \in Inside(fs, p) : fs[q].kind = "file"})

Range(seq) == {seq[i] : i \in DOMAIN seq}

RECURSIVE SumSizes(_, _)
SumSizes(fs, files) ==
    IF files = <<>> THEN 0 ELSE Size(fs, Head(files)) + SumSizes(fs, Tail(files))

\* the suffix tests of computeMixedSelectionSize and of the walks in doEncrypt (four
\* suffixes), and the one of encryptDirectoryRecursive (three: .pgp is not in it)
SkippedWhenCounting(p) ==
    LET low == StringsToLower(p) IN
    HasSuffix(low, extHadescrypt) \/ HasSuffix(low, extHeistcrypt)
        \/ HasSuffix(low, extGpg) \/ HasSuffix(low, extPgp)
SkippedWhenWalking(p) ==
    LET low == StringsToLower(p) IN
    HasSuffix(low, extHadescrypt) \/ HasSuffix(low, extHeistcrypt) \/ HasSuffix(low, extGpg)

\* the files computeMixedSelectionSize counts, and its total
CountedIn(fs, p) ==
    IF ~Stat(fs, p) THEN <<>>
    ELSE IF IsDir(fs, p) THEN SelectSeq(WalkFiles(fs, p), LAMBDA q : ~SkippedWhenCounting(q))
    ELSE <<p>>

RECURSIVE computeMixedSelectionSize(_, _)
computeMixedSelectionSize(fs, paths) ==
    IF paths = <<>> THEN 0
    ELSE SumSizes(fs, CountedIn(fs, Head(paths)))
            + computeMixedSelectionSize(fs, Tail(paths))

defaultOutputPathForEncrypt(mode, inPath) ==
    IF mode = ModeGnuPG THEN inPath \o extGpg ELSE inPath \o extHadescrypt

\* filepath.Base of a path without a trailing separator
RECURSIVE Base(_)
Base(p) ==
    IF \E i \in DOMAIN p : p[i] = slash
    THEN Base(Tail(p)) ELSE p

\* config.AddHistoryEntry: append, keep the last historyCap entries
historyCap == 100
AddHistoryEntry(history, entry) ==
    LET h == Append(history, entry) IN
    IF Len(h) > historyCap THEN SubSeq(h, Len(h) - historyCap + 1, Len(h)) ELSE h

\* the characters of a base name as text tokens, for the sidecar
letters == <<"a", "b", "c", "d", "e", "f", "g", "h", "i", "j", "k", "l", "m",
             "n", "o", "p", "q", "r", "s", "t", "u", "v", "w", "x", "y", "z">>
Chr(c)      == IF c \in 97..122 THEN letters[c - 96] ELSE IF c = 46 THEN "." ELSE "?"
TextOf(p)   == [i \in DOMAIN p |-> Chr(p[i])]

extMeta       == <<46, 109, 101, 116, 97>>                          \* ".meta"
extTempTarGz  == <<46, 116, 101, 109, 112, 46, 116, 97, 114, 46, 103, 122>>  \* ".temp.tar.gz"

\* the tree below the directory p, named relative to p, in walk order
TreeOf(fs, p) ==
    LET files == WalkFiles(fs, p) IN
    [i \in DOMAIN files |->
        Reg(SubSeq(files[i], Len(p) + 2, Len(files[i])), fs[files[i]].data)]

\* app.fs after encryptDirectory(p, out, password), and the error
encryptDirectoryAt(fs, p, out, password, s, np) ==
    LET view == [src           |-> DirSrc(TextOf(Base(p)), TreeOf(fs, p)),
                 container     |-> OpenFile(fs, out),
                 meta          |-> IF IsRegular(fs, out \o extMeta)
                                   THEN Meta(fs[out \o extMeta].text) ELSE NoMeta,
                 tempArchive   |-> OpenFile(fs, out \o extTempTarGz),
                 tempDecrypted |-> NoFile,
                 out           |-> NoPath]
        r    == encryptDirectory(view, password, s, np)
        fs1  == PutFile(fs, out, r.fs.container)
        fs2  == IF r.fs.meta.exists
                THEN WriteEntry(fs1, out \o extMeta, TextFile(r.fs.meta.text)) ELSE fs1
    IN [err |-> r.err, fs |-> osRemove(fs2, out \o extTempTarGz)]

\* EncryptFileWithMode up to the end of its header write, on the file at path p
NoRun == [st |-> EncIdle, file |-> NoFile, log |-> <<>>]
EncOpen(fs, p, out, password, mode, s, np) ==
    IF ~Stat(fs, p)
    THEN [NoRun EXCEPT !.st.pc = "done", !.st.err = "open input", !.file = OpenFile(fs, out)]
    ELSE EncBegin(fs[p].data, OpenFile(fs, out), password, mode, s, np)

\* a config.HistoryEntry; outcome is not a field of it: it keeps the error the recorded
\* operation returned
HistoryEntry(name, operation, result, outcome) ==
    [FileName |-> name, Operation |-> operation, Result |-> result, Error |-> "",
     outcome |-> outcome]

\* a worker goroutine of doEncrypt or doDecrypt.  pc: "start", "batch" (top of the loop over
\* selectedPaths), "rec" (top of the loop of encryptDirectoryRecursive), "chunks"
\* (inside EncryptFileWithMode), "posted" (doDecrypt has handed its closure to fyne.Do),
\* "targets" (top of the loop over the targets of doDecrypt), "summary" (that loop is
\* left), "done", "crashed" (a panic ended the process).
\* posts holds the statuses a batch decryption handed to the status label, completed
\* counts the targets it decrypted.
\* The fields from canceled on record what happened and steer nothing: encrypted holds
\* the files EncryptFileWithMode turned into a container of their own, counted the files
\* whose sizes make up the total, archived says that a folder went into an archive.
NewWorker ==
    [op |-> "encrypt", historyEntry |-> HistoryEntry(<<>>, "", "", ""),
     pc |-> "start", singleIsDir |-> FALSE, outputPath |-> <<>>, password |-> <<>>,
     encErr |-> "nil", idx |-> 1, grandTotal |-> 0, processed |-> 0,
     caller |-> "", root |-> <<>>, files |-> <<>>, fidx |-> 1, totalBytes |-> 0,
     processedBytes |-> 0,
     ctx |-> "", item |-> <<>>, out |-> <<>>, in |-> <<>>, cur |-> NoRun,
     canceled |-> FALSE, midFile |-> FALSE, chunksAfterCancel |-> 0, lateStarts |-> 0,
     started |-> <<>>, failed |-> {}, afterFailure |-> {}, encrypted |-> {}, counted |-> {},
     archived |-> FALSE, posts |-> <<>>, completed |-> 0]

Running(w) == w.pc \notin {"done", "crashed"}

\* the state of the job that one step of a worker changes
Effect(w, fs, history, removed) ==
    [w |-> w, fs |-> fs, history |-> history, removed |-> removed]

Finish(w, err) == [w EXCEPT !.pc = "done", !.encErr = err]

\* the worker begins an item of the batch (ghost bookkeeping)
Begun(w) ==
    [w EXCEPT !.started = Append(@, w.idx),
              !.lateStarts = IF w.canceled THEN @ + 1 ELSE @,
              !.afterFailure = IF w.failed # {} THEN @ \cup {w.idx} ELSE @]

\* encryptDirectoryRecursive has returned err to its caller
RecReturn(a, e, err) ==
    LET w == e.w
        p == w.root
    IN
    IF w.caller = "single" THEN [e EXCEPT !.w = Finish(w, err)]
    ELSE IF err # "nil"
    THEN [e EXCEPT !.w = Finish([w EXCEPT !.failed = @ \cup {w.idx}], err)]
    ELSE Effect([w EXCEPT !.pc = "batch", !.idx = @ + 1,
                          !.processed = @ + SumSizes(e.fs,
                              SelectSeq(WalkFiles(e.fs, p),
                                        LAMBDA q : ~SkippedWhenCounting(q)))],
                IF a.deleteAfter THEN osRemoveAll(e.fs, p) ELSE e.fs,
                AddHistoryEntry(e.history,
                                HistoryEntry(Base(p), "encrypt-folder", "success", "nil")),
                IF a.deleteAfter
                THEN e.removed \cup {[path |-> p, err |-> "nil", deleteAfter |-> TRUE]}
                ELSE e.removed)

\* encryptDirectoryRecursive up to the top of its loop over the collected files
RecBegin(a, e, p, caller) ==
    LET files == SelectSeq(WalkFiles(e.fs, p), LAMBDA q : ~SkippedWhenWalking(q))
        total == SumSizes(e.fs, files)
        w     == [e.w EXCEPT !.caller = caller, !.root = p, !.files = files, !.fidx = 1,
                             !.totalBytes = total, !.processedBytes = 0,
                             !.counted = IF caller = "single" THEN Range(files) ELSE @]
    IN
    IF total = 0 THEN RecReturn(a, [e EXCEPT !.w = w], "no files to encrypt in directory")
    ELSE [e EXCEPT !.w = [w EXCEPT !.pc = "rec"]]

\* EncryptFileWithMode is entered for the file at p
FileBegin(a, e, ctx, p, out, s, np) ==
    LET run == EncOpen(e.fs, p, out, e.w.password, a.encryptionMode, s, np) IN
    [e EXCEPT !.w  = [e.w EXCEPT !.pc = "chunks", !.ctx = ctx, !.item = p, !.out = out,
                                 !.in = IF Stat(e.fs, p) THEN e.fs[p].data ELSE <<>>,
                                 !.cur = run],
              !.fs = PutFile(e.fs, out, run.file)]

\* EncryptFileWithMode has returned in the worker e.w
FileReturned(a, e) ==
    LET w   == e.w
        err == w.cur.st.err
        ok  == [w EXCEPT !.encrypted = IF err = "nil" THEN @ \cup {w.item} ELSE @]
        gone == [path |-> w.item, err |-> err, deleteAfter |-> a.deleteAfter]
    IN
    IF err = "panic" THEN [e EXCEPT !.w.pc = "crashed"]
    ELSE IF w.ctx = "single"
    THEN \* main.go:724-729: the entry and the removal do not look at encErr
         Effect(Finish(ok, err),
                IF a.deleteAfter THEN osRemove(e.fs, a.selectedPath) ELSE e.fs,
                AddHistoryEntry(e.history,
                                HistoryEntry(Base(a.selectedPath), "encrypt", "success", err)),
                IF a.deleteAfter
                THEN e.removed \cup {[gone EXCEPT !.path = a.selectedPath]} ELSE e.removed)
    ELSE IF w.ctx = "batch"
    THEN IF err # "nil"
         THEN [e EXCEPT !.w = Finish([w EXCEPT !.failed = @ \cup {w.idx}], err)]
         ELSE Effect([ok EXCEPT !.pc = "batch", !.idx = @ + 1, !.processed = @ + Len(w.in)],
                     IF a.deleteAfter THEN osRemove(e.fs, w.item) ELSE e.fs,
                     AddHistoryEntry(e.history,
                                     HistoryEntry(Base(w.item), "encrypt", "success", err)),
                     IF a.deleteAfter THEN e.removed \cup {gone} ELSE e.removed)
    ELSE \* inside encryptDirectoryRecursive
         IF err # "nil" THEN RecReturn(a, e, err)
         ELSE Effect([ok EXCEPT !.pc = "rec", !.fidx = @ + 1,
                                !.processedBytes = @ + Len(w.in)],
                     IF a.deleteAfter THEN osRemove(e.fs, w.item) ELSE e.fs,
                     e.history,
                     IF a.deleteAfter THEN e.removed \cup {gone} ELSE e.removed)

\* the body of the goroutine up to its first loop or call (main.go:654-675, 718-724)
Started(a, e, s, np) ==
    LET finalPassword == IF km.Keyfiles # <<>> THEN GetCombinedKey(km, a.password)
                         ELSE a.password
        w == [e.w EXCEPT !.password = finalPassword]
        p == a.selectedPath
        x == encryptDirectoryAt(e.fs, p, w.outputPath, finalPassword, s, np)
    IN
    IF a.selectedPaths # <<>>
    THEN [e EXCEPT !.w = [w EXCEPT !.pc = "batch",
                                   !.grandTotal = computeMixedSelectionSize(e.fs, a.selectedPaths),
                                   !.counted = UNION {Range(CountedIn(e.fs, a.selectedPaths[i])) :
                                                         i \in DOMAIN a.selectedPaths}]]
    ELSE IF w.singleIsDir
    THEN IF a.recursiveMode THEN RecBegin(a, [e EXCEPT !.w = w], p, "single")
         ELSE [e EXCEPT !.w = Finish([w EXCEPT !.archived = TRUE], x.err), !.fs = x.fs]
    ELSE FileBegin(a, [e EXCEPT !.w = [w EXCEPT !.counted = {p}]], "single", p,
                   w.outputPath, s, np)

\* one pass through the top of the loop over selectedPaths (main.go:675-716)
BatchStep(a, e, s, np) ==
    LET w   == e.w
        p   == a.selectedPaths[w.idx]
        out == defaultOutputPathForEncrypt(a.encryptionMode, p)
        x   == encryptDirectoryAt(e.fs, p, out, w.password, s, np)
    IN
    IF w.idx > Len(a.selectedPaths) THEN [e EXCEPT !.w = Finish(w, w.encErr)]
    ELSE IF a.cancelRequested THEN [e EXCEPT !.w = Finish(w, "canceled")]
    ELSE IF ~Stat(e.fs, p)
    THEN [e EXCEPT !.w = [w EXCEPT !.idx = @ + 1, !.failed = @ \cup {w.idx}]]
    ELSE IF IsDir(e.fs, p)
    THEN IF a.recursiveMode THEN RecBegin(a, [e EXCEPT !.w = Begun(w)], p, "batch")
         ELSE IF x.err # "nil"
         THEN [e EXCEPT !.w = Finish([Begun(w) EXCEPT !.failed = @ \cup {w.idx},
                                                       !.archived = TRUE], x.err),
                        !.fs = x.fs]
         ELSE Effect([Begun(w) EXCEPT
                         !.idx = @ + 1,
                         !.archived = TRUE,
                         !.processed = @ + SumSizes(x.fs,
                             SelectSeq(WalkFiles(x.fs, p),
                                       LAMBDA q : ~SkippedWhenCounting(q)))],
                     IF a.deleteAfter THEN osRemoveAll(x.fs, p) ELSE x.fs,
                     AddHistoryEntry(e.history,
                                     HistoryEntry(Base(p), "encrypt-folder", "success", "nil")),
                     IF a.deleteAfter
                     THEN e.removed \cup {[path |-> p, err |-> "nil", deleteAfter |-> TRUE]}
                     ELSE e.removed)
    ELSE FileBegin(a, [e EXCEPT !.w = Begun(w)], "batch", p, out, s, np)

\* one pass through the top of the loop of encryptDirectoryRecursive (main.go:975-983)
RecStep(a, e, s, np) ==
    LET w    == e.w
        file == w.files[w.fidx]
        out  == IF a.encryptionMode = ModeGnuPG THEN file \o extGpg
                ELSE file \o extHadescrypt
    IN
    IF w.fidx > Len(w.files) THEN RecReturn(a, e, "nil")
    ELSE IF a.cancelRequested THEN RecReturn(a, e, "canceled")
    ELSE IF ~Stat(e.fs, file)
    THEN \* fi is nil and fi.Size() panics
         [e EXCEPT !.w.pc = "crashed"]
    ELSE FileBegin(a, [e EXCEPT !.w.lateStarts = IF w.canceled THEN @ + 1 ELSE @],
                   "rec", file, out, s, np)

\* one iteration of the loop of EncryptFileWithMode in the worker
ChunkStep(a, e) ==
    LET w   == e.w
        run == EncNext(w.in, w.cur, 0)
        wrote == run.st.chunks > w.cur.st.chunks
    IN [e EXCEPT !.w  = [w EXCEPT !.cur = run,
                                  !.chunksAfterCancel =
                                      IF w.midFile /\ wrote THEN @ + 1 ELSE @],
                 !.fs = PutFile(e.fs, w.out, run.file)]

extDecTmp == <<46, 95, 95, 100, 101, 99, 95, 116, 109, 112, 95, 95>>    \* ".__dec_tmp__"

\* isHadesCryptFile and isGnuPGFile on a path of app.fs
isHadesCryptFileAt(fs, p) ==
    LET lower == StringsToLower(p) IN
    /\ HasSuffix(lower, extHadescrypt) \/ HasSuffix(lower, extHeistcrypt)
    /\ isHadesCryptFile(OpenFile(fs, p))
isGnuPGFile(fs, p) ==
    LET lowerPath == StringsToLower(p) IN
    \/ HasSuffix(lowerPath, extGpg) \/ HasSuffix(lowerPath, extPgp)
    \/ (IsRegular(fs, p) /\ fs[p].data # <<>> /\ fs[p].data[1] >= 128)

\* what the output path holds, as the folder pipeline sees it, and back
OutputView(fs, out) ==
    IF ~Stat(fs, out) THEN NoPath
    ELSE IF IsRegular(fs, out) THEN FileAt(fs[out].data)
    ELSE DirOf({IF fs[q].kind = "dir" THEN Dir(SubSeq(q, Len(out) + 2, Len(q)))
                ELSE Reg(SubSeq(q, Len(out) + 2, Len(q)), fs[q].data) :
                    q \in Inside(fs, out)})
PutOutput(fs, out, o) ==
    IF o.kind = "none" THEN fs
    ELSE IF o.kind = "file" THEN WriteEntry(fs, out, RegularFile(o.data))
    ELSE LET under(e) == out \o <<slash>> \o e.Name IN
         [q \in DOMAIN fs \cup {out} \cup {under(e) : e \in o.entries} |->
             IF q = out THEN Directory
             ELSE IF \E e \in o.entries : under(e) = q
             THEN LET e == CHOOSE x \in o.entries : under(x) = q IN
                  IF e.Typeflag = TypeDir THEN Directory ELSE RegularFile(e.Data)
             ELSE fs[q]]

\* the files decryptFileAuto(t, out, password) works on, and app.fs with what it left
FolderView(fs, t, out) ==
    [src           |-> FileSrc(<<>>, <<>>),
     container     |-> OpenFile(fs, t),
     meta          |-> IF IsRegular(fs, t \o extMeta)
                       THEN Meta(fs[t \o extMeta].text) ELSE NoMeta,
     tempArchive   |-> NoFile,
     tempDecrypted |-> OpenFile(fs, t \o extDecTmp),
     out           |-> OutputView(fs, out)]
PutFolderView(fs, t, out, r) ==
    [err |-> r.err,
     fs  |-> osRemove(IF ~r.fs.meta.exists
                      THEN osRemove(PutOutput(fs, out, r.fs.out), t \o extMeta)
                      ELSE PutOutput(fs, out, r.fs.out),
                      t \o extDecTmp)]

\* app.fs after decryptFileAuto(t, out, password), and the error
decryptFileAutoAt(fs, t, out, password) ==
    PutFolderView(fs, t, out, decryptFileAuto(FolderView(fs, t, out), password))

\* app.fs after cryptoengine.DecryptFile(t, out, password), and the error
PutDecrypted(fs, out, d) == [err |-> d.st.err, fs |-> PutFile(fs, out, d.out)]
DecryptFileAt(fs, t, out, password) ==
    PutDecrypted(fs, out, DecryptFile(OpenFile(fs, t), OpenFile(fs, out), password))

\* the goroutine of doDecrypt on a single regular file, up to its fyne.Do
\* (main.go:824-870): the entry is built without a result
DecryptCall(fs, p, out, finalPassword) ==
    IF isHadesCryptFileAt(fs, p) THEN decryptFileAutoAt(fs, p, out, finalPassword)
    ELSE DecryptFileAt(fs, p, out, finalPassword)
DecryptReturned(a, e, finalPassword, x) ==
    IF x.err = "panic" THEN [e EXCEPT !.w.pc = "crashed", !.fs = x.fs]
    ELSE [e EXCEPT !.w  = [e.w EXCEPT !.pc = "posted", !.password = finalPassword,
                                      !.encErr = x.err,
                                      !.historyEntry = HistoryEntry(Base(a.selectedPath),
                                                                    "decrypt", "", x.err)],
                   !.fs = x.fs]
DecryptWith(a, e, finalPassword) ==
    DecryptReturned(a, e, finalPassword,
                    DecryptCall(e.fs, a.selectedPath, e.w.outputPath, finalPassword))
DecryptStarted(a, e) ==
    DecryptWith(a, e, IF km.Keyfiles # <<>> THEN GetCombinedKey(km, a.password)
                      ELSE a.password)

\* the function doDecrypt posted with fyne.Do, run by the UI thread (main.go:870-894)
DecryptShown(a, e) ==
    LET w == e.w IN
    IF w.encErr # "nil"
    THEN IF w.encErr = "canceled" THEN e
         ELSE [e EXCEPT !.w.historyEntry.Result = "error",
                        !.w.historyEntry.Error = w.encErr]
    ELSE Effect([w EXCEPT !.historyEntry.Result = "success"],
                IF a.deleteAfter THEN osRemove(e.fs, a.selectedPath) ELSE e.fs,
                e.history,
                IF a.deleteAfter
                THEN e.removed \cup {[path |-> a.selectedPath, err |-> w.encErr,
                                      deleteAfter |-> TRUE]}
                ELSE e.removed)

\* a text the job hands to the status label: the running item, "Error: ...", the
\* summary "Decrypted n item(s)" or "Canceled"; items is the number the text shows
Status(kind, items) == [kind |-> kind, items |-> items]

\* the decryptor has returned x for the target t of the batch (main.go:783, 800-804)
DecryptItemReturned(a, e, t, x) ==
    LET w == [e.w EXCEPT !.posts = Append(@, Status("item", e.w.idx))] IN
    IF x.err = "panic" THEN [e EXCEPT !.w.pc = "crashed", !.fs = x.fs]
    ELSE IF x.err # "nil"
    THEN [e EXCEPT !.w  = [w EXCEPT !.pc = "summary", !.encErr = x.err,
                                    !.failed = @ \cup {w.idx},
                                    !.posts = Append(@, Status("error", 0))],
                   !.fs = x.fs]
    ELSE [e EXCEPT !.w  = [w EXCEPT !.idx = @ + 1, !.completed = @ + 1],
                   !.fs = IF a.deleteAfter THEN osRemoveAll(x.fs, t) ELSE x.fs,
                   !.removed = IF a.deleteAfter
                               THEN @ \cup {[path |-> t, err |-> "nil", deleteAfter |-> TRUE]}
                               ELSE @]

\* one turn of the loop over the targets of a batch decryption (main.go:779-805)
DecryptTurn(a, e) ==
    IF e.w.idx > Len(a.selectedPaths) \/ a.cancelRequested
    THEN [e EXCEPT !.w.pc = "summary"]
    ELSE IF ~Stat(e.fs, a.selectedPaths[e.w.idx]) THEN [e EXCEPT !.w.idx = @ + 1]
    ELSE DecryptItemReturned(a, e, a.selectedPaths[e.w.idx],
                             DecryptCall(e.fs, a.selectedPaths[e.w.idx],
                                         defaultOutputPathForDecrypt(a.selectedPaths[e.w.idx]),
                                         e.w.password))

\* the status a batch decryption posts once its loop is left (main.go:806-809)
DecryptSummary(a, e) ==
    [e EXCEPT !.w = [e.w EXCEPT !.pc = "done",
                                !.posts = Append(@, IF ~a.cancelRequested
                                                    THEN Status("summary", Len(a.selectedPaths))
                                                    ELSE Status("canceled", 0))]]

(***************************************************************************)
(* The application as a state machine.                                     *)
(***************************************************************************)
MaxJobs == 1        \* worker goroutines launched in one behaviour

JobPassword == <<120>>

fileA   == <<97>>                       \* "a", three chunks long
fileG   == <<99>> \o extGpg             \* "c.gpg"
missing == <<109>>                      \* "m", selected and gone since
dirD    == <<100>>                      \* "d", holding "d/a" and "d/.pgp"
fileE   == <<101>> \o extHadescrypt     \* "e.hadescrypt", a container made with JobPassword

JobFiles ==
    [q \in {fileA, fileG, fileE, dirD, dirD \o <<slash, 97>>, dirD \o <<slash>> \o extPgp} |->
        IF q = fileA THEN RegularFile(PlainOf(2 * ChunkSize + 1))
        ELSE IF q = fileE
        THEN RegularFile(EncryptFile(PlainOf(1), NoFile, JobPassword,
                                     [i \in 1..saltLengthBytes |-> 3],
                                     [i \in 1..noncePrefixLen |-> 5]).file.data)
        ELSE IF q = fileG THEN RegularFile(PlainOf(1))
        ELSE IF q = dirD THEN Directory
        ELSE IF q = dirD \o <<slash, 97>> THEN RegularFile(PlainOf(1))
        ELSE RegularFile(PlainOf(2))]

Selections ==
    {[one |-> p, many |-> <<>>] : p \in {<<>>, fileA, fileG, fileE, dirD}}
        \cup {[one |-> <<>>, many |-> m] :
                 m \in {<<fileA, fileG>>, <<missing, fileA>>, <<dirD, fileA>>}}

JobModes     == {ModeAES256GCM, ModeChaCha20, ModeGnuPG}
WrongConfirm == <<121>>
JobSalts     == {[i \in 1..saltLengthBytes |-> 3]}

InitApp ==
    /\ app \in {[AppIdle EXCEPT !.selectedPath = sel.one, !.selectedPaths = sel.many,
                                !.password = JobPassword, !.confirmPassword = JobPassword,
                                !.encryptionMode = mode, !.deleteAfter = del,
                                !.recursiveMode = rec, !.fs = JobFiles] :
                   sel \in Selections, mode \in JobModes, del \in BOOLEAN, rec \in BOOLEAN}
    /\ naming = NamingIdle

InitJob == InitCodec(0) /\ InitKeys /\ InitFolder({DirSrc(<<"docs">>, EmptyTree)}) /\ InitApp

\* a panic in a goroutine ends the process
Alive == \A k \in DOMAIN app.workers : app.workers[k].pc # "crashed"

Apply(k, e) ==
    app' = [app EXCEPT !.workers[k] = e.w, !.fs = e.fs, !.history = e.history,
                       !.removed = e.removed]

Before(k) == Effect(app.workers[k], app.fs, app.history, app.removed)

\* the Encrypt button: doEncrypt up to the go statement (main.go:626-653)
doEncrypt ==
    LET invalid  == \/ (app.selectedPath = <<>> /\ app.selectedPaths = <<>>)
                    \/ app.password = <<>>
                    \/ app.password # app.confirmPassword
        statErr  == app.selectedPath # <<>> /\ ~Stat(app.fs, app.selectedPath)
        launches == ~invalid /\ ~statErr
        w        == [NewWorker EXCEPT
                        !.singleIsDir = IsDir(app.fs, app.selectedPath),
                        !.outputPath  = IF app.selectedPath # <<>>
                                        THEN defaultOutputPathForEncrypt(app.encryptionMode,
                                                                         app.selectedPath)
                                        ELSE <<>>]
    IN /\ Alive
       /\ launches => Len(app.workers) < MaxJobs
       /\ app' = [app EXCEPT !.cancelRequested = FALSE,
                             !.workers = IF launches THEN Append(@, w) ELSE @]
       /\ UNCHANGED <<codecVars, keyVars, folderVars, naming>>

\* the Cancel button (main.go:348-353)
CancelButton ==
    /\ Alive
    /\ ~app.cancelRequested
    /\ app' = [app EXCEPT
                  !.cancelRequested = TRUE,
                  !.workers = [k \in DOMAIN app.workers |->
                      LET w == app.workers[k] IN
                      IF Running(w)
                      THEN [w EXCEPT !.canceled = TRUE,
                                     !.midFile = \/ @
                                                 \/ /\ w.pc = "chunks"
                                                    /\ w.cur.st.pc = "loop"
                                                    /\ w.cur.st.chunks >= 1
                                                    /\ w.cur.st.inPos < Len(w.in)]
                      ELSE w]]
    /\ UNCHANGED <<codecVars, keyVars, folderVars, naming>>

\* the user edits the confirmation field (main.go:193-195)
confirmPasswordChanged(text) ==
    /\ Alive
    /\ app.confirmPassword # text
    /\ app' = [app EXCEPT !.confirmPassword = text]
    /\ UNCHANGED <<codecVars, keyVars, folderVars, naming>>

WorkerStart(k, s, np) ==
    /\ Alive
    /\ app.workers[k].op = "encrypt"
    /\ app.workers[k].pc = "start"
    /\ Apply(k, Started(app, Before(k), s, np))
    /\ UNCHANGED <<codecVars, keyVars, folderVars, naming>>

BatchLoop(k, s, np) ==
    /\ Alive
    /\ app.workers[k].pc = "batch"
    /\ Apply(k, BatchStep(app, Before(k), s, np))
    /\ UNCHANGED <<codecVars, keyVars, folderVars, naming>>

RecursiveLoop(k, s, np) ==
    /\ Alive
    /\ app.workers[k].pc = "rec"
    /\ Apply(k, RecStep(app, Before(k), s, np))
    /\ UNCHANGED <<codecVars, keyVars, folderVars, naming>>

EncryptChunk(k) ==
    /\ Alive
    /\ app.workers[k].pc = "chunks"
    /\ app.workers[k].cur.st.pc # "done"
    /\ Apply(k, ChunkStep(app, Before(k)))
    /\ UNCHANGED <<codecVars, keyVars, folderVars, naming>>

EncryptReturn(k) ==
    /\ Alive
    /\ app.workers[k].pc = "chunks"
    /\ app.workers[k].cur.st.pc = "done"
    /\ Apply(k, FileReturned(app, Before(k)))
    /\ UNCHANGED <<codecVars, keyVars, folderVars, naming>>

\* the Decrypt button: doDecrypt up to the go statement (main.go:739-756).  The model
\* follows the worker it launches for a single regular file that is not a GnuPG file,
\* and for a selection of several paths none of which is a folder or a GnuPG file.
doDecrypt ==
    LET invalid  == \/ (app.selectedPath = <<>> /\ app.selectedPaths = <<>>)
                    \/ app.password = <<>>
        w        == [NewWorker EXCEPT
                        !.op = "decrypt",
                        !.outputPath = IF app.selectedPath # <<>>
                                       THEN defaultOutputPathForDecrypt(app.selectedPath)
                                       ELSE <<>>]
    IN /\ Alive
       /\ ~invalid => /\ Len(app.workers) < MaxJobs
                      /\ app.selectedPaths = <<>> =>
                            /\ IsRegular(app.fs, app.selectedPath)
                            /\ ~isGnuPGFile(app.fs, app.selectedPath)
                      /\ \A i \in DOMAIN app.selectedPaths :
                            /\ ~IsDir(app.fs, app.selectedPaths[i])
                            /\ ~isGnuPGFile(app.fs, app.selectedPaths[i])
       /\ app' = [app EXCEPT !.cancelRequested = FALSE,
                             !.workers = IF ~invalid THEN Append(@, w) ELSE @]
       /\ UNCHANGED <<codecVars, keyVars, folderVars, naming>>

Posted(k, e) ==
    app' = [app EXCEPT !.workers[k] = e.w, !.fs = e.fs,
                       !.ui = IF e.w.pc = "posted" THEN Append(@, k) ELSE @]

\* the worker decrypts the selected file and posts its closure
DecryptWorker(k) ==
    /\ Alive
    /\ app.workers[k].op = "decrypt"
    /\ app.workers[k].pc = "start"
    /\ app.selectedPaths = <<>>
    /\ Posted(k, DecryptStarted(app, Before(k)))
    /\ UNCHANGED <<codecVars, keyVars, folderVars, naming>>

\* the worker of a batch takes the password and the keyfiles (main.go:758-760)
DecryptBatchStart(k) ==
    /\ Alive
    /\ app.workers[k].op = "decrypt"
    /\ app.workers[k].pc = "start"
    /\ app.selectedPaths # <<>>
    /\ app' = [app EXCEPT !.workers[k].pc = "targets",
                          !.workers[k].password =
                              IF km.Keyfiles # <<>> THEN GetCombinedKey(km, app.password)
                              ELSE app.password]
    /\ UNCHANGED <<codecVars, keyVars, folderVars, naming>>

\* the worker decrypts the next target of the batch
DecryptBatchLoop(k) ==
    /\ Alive
    /\ app.workers[k].op = "decrypt"
    /\ app.workers[k].pc = "targets"
    /\ Apply(k, DecryptTurn(app, Before(k)))
    /\ UNCHANGED <<codecVars, keyVars, folderVars, naming>>

\* the worker has left the loop and posts its last status
DecryptBatchEnd(k) ==
    /\ Alive
    /\ app.workers[k].op = "decrypt"
    /\ app.workers[k].pc = "summary"
    /\ Apply(k, DecryptSummary(app, Before(k)))
    /\ UNCHANGED <<codecVars, keyVars, folderVars, naming>>

Shown(k, e) ==
    app' = [app EXCEPT !.workers[k] = e.w, !.fs = e.fs, !.removed = e.removed,
                       !.ui = Tail(@)]

\* the UI thread runs the oldest posted closure
UiRun ==
    /\ Alive
    /\ app.ui # <<>>
    /\ Shown(Head(app.ui), DecryptShown(app, Before(Head(app.ui))))
    /\ UNCHANGED <<codecVars, keyVars, folderVars, naming>>

\* the worker, not waiting for the closure, hands the entry to the history (main.go:896)
DecryptRecord(k) ==
    /\ Alive
    /\ app.workers[k].pc = "posted"
    /\ app' = [app EXCEPT !.workers[k].pc = "done",
                          !.history = AddHistoryEntry(@, app.workers[k].historyEntry)]
    /\ UNCHANGED <<codecVars, keyVars, folderVars, naming>>

NextJob ==
    \/ doEncrypt
    \/ doDecrypt
    \/ \E k \in DOMAIN app.workers : DecryptWorker(k)
    \/ \E k \in DOMAIN app.workers : DecryptBatchStart(k)
    \/ \E k \in DOMAIN app.workers : DecryptBatchLoop(k)
    \/ \E k \in DOMAIN app.workers : DecryptBatchEnd(k)
    \/ UiRun
    \/ \E k \in DOMAIN app.workers : DecryptRecord(k)
    \/ CancelButton
    \/ \E text \in {JobPassword, WrongConfirm} : confirmPasswordChanged(text)
    \/ \E k \in DOMAIN app.workers, s \in JobSalts, np \in NoncePrefixes : WorkerStart(k, s, np)
    \/ \E k \in DOMAIN app.workers, s \in JobSalts, np \in NoncePrefixes : BatchLoop(k, s, np)
    \/ \E k \in DOMAIN app.workers, s \in JobSalts, np \in NoncePrefixes :
          RecursiveLoop(k, s, np)
    \/ \E k \in DOMAIN app.workers : EncryptChunk(k)
    \/ \E k \in DOMAIN app.workers : EncryptReturn(k)

SpecJob == InitJob /\ [][NextJob]_vars

\* The Decrypt button alone, on selections that hold a container: the container and a
\* file that is none, in both orders, the container and a path that is gone, the container
\* twice, with the password of the container or another one.
DecryptSelections ==
    {[one |-> p, many |-> <<>>] : p \in {fileA, fileE}}
        \cup {[one |-> <<>>, many |-> m] :
                 m \in {<<fileE, fileA>>, <<fileA, fileE>>, <<fileE, missing>>,
                        <<missing, fileA>>, <<fileE, fileE>>}}

InitDecryptJob ==
    /\ InitCodec(0) /\ InitKeys /\ InitFolder({DirSrc(<<"docs">>, EmptyTree)})
    /\ app \in {[AppIdle EXCEPT !.selectedPath = sel.one, !.selectedPaths = sel.many,
                                !.password = pw, !.deleteAfter = del, !.fs = JobFiles] :
                   sel \in DecryptSelections, pw \in {JobPassword, WrongConfirm},
                   del \in BOOLEAN}
    /\ naming = NamingIdle

NextDecryptJob ==
    \/ doDecrypt
    \/ \E k \in DOMAIN app.workers : DecryptWorker(k)
    \/ \E k \in DOMAIN app.workers : DecryptBatchStart(k)
    \/ \E k \in DOMAIN app.workers : DecryptBatchLoop(k)
    \/ \E k \in DOMAIN app.workers : DecryptBatchEnd(k)
    \/ UiRun
    \/ \E k \in DOMAIN app.workers : DecryptRecord(k)
    \/ CancelButton

SpecDecryptJob == InitDecryptJob /\ [][NextDecryptJob]_vars

(***************************************************************************)
(* Properties of the codec.                                                *)
(***************************************************************************)
EncOk        == enc.pc = "done" /\ enc.err = "nil"
DecDone      == dec.pc = "done"
SamePassword == dec.password = enc.password
Untampered   == tamper = NoTamper
ChunksOf(n)  == (n + ChunkSize - 1) \div ChunkSize

\* C1: for every password, every mode in {AES-256-GCM, ChaCha20-Poly1305, Cascade} and
\* every plaintext, DecryptFile with the same password on the container written by
\* EncryptFileWithMode returns success and writes exactly the plaintext.
C1_RoundTrip ==
    (DecDone /\ EncOk /\ Untampered /\ SamePassword /\ IsAeadMode(enc.mode))
        => (dec.err = "nil" /\ outFile = File(inFile))

C3_WrongPassword ==
    (DecDone /\ EncOk /\ Untampered /\ ~SamePassword /\ IsAeadMode(enc.mode))
        => (dec.err = "authentication failed" /\ dec.i = 0)

\* C4: after one header byte behind the 4-byte magic is changed, DecryptFile returns an
\* error (authentication, unsupported version, unsupported mode, bad format); it never
\* succeeds and never crashes.
C4_HeaderFlipRejected ==
    (DecDone /\ EncOk /\ tamper.kind = "header" /\ tamper.pos > 4 /\ SamePassword)
        => dec.err \in {"authentication failed", "unsupported version",
                        "unsupported encryption mode", "invalid file format", "io"}

\* C5: a container with extra bytes after the last chunk frame makes DecryptFile
\* return an error rather than success.
C5_TrailingRejected ==
    (DecDone /\ EncOk /\ tamper.kind = "trailing" /\ SamePassword /\ IsAeadMode(enc.mode))
        => dec.err # "nil"

C7_NonceUnique ==
    \A i, j \in 1..Len(sealLog) :
        i < j => <<sealLog[i].key, sealLog[i].nonce>> # <<sealLog[j].key, sealLog[j].nonce>>

\* C18: whatever mode the user selected, a container written by an encrypt operation
\* carries mode byte 0, 1 or 2 (never the reserved ids 3, 4, 5), or no container is
\* written.
C18_NoReservedMode ==
    (encFile.exists /\ Untampered)
        => encFile.data[6] \notin
              {ModePostQuantumKyber768, ModePostQuantumDilithium3, ModePostQuantumSPHINCS}

(***************************************************************************)
(* Properties of the keyfile manager.                                      *)
(***************************************************************************)
Injections(n) == {p \in [1..n -> 1..n] : \A i, j \in 1..n : p[i] = p[j] => i = j}

\* a second manager holding the keyfiles of m in the order p
Permuted(m, p) == [m EXCEPT !.Keyfiles = [i \in DOMAIN m.Keyfiles |-> m.Keyfiles[p[i]]]]

HashesOf(m) == [i \in DOMAIN m.Keyfiles |-> m.Keyfiles[i].Hash]

\* C8: for a fixed password and a second manager that holds the same keyfiles in another
\* order, the two compound secrets differ when RequireOrder is true and are equal when
\* RequireOrder is false.
C8_OrderSensitivity ==
    \A p \in Injections(Len(km.Keyfiles)) : \A password \in Passwords :
        LET other == Permuted(km, p) IN
        HashesOf(other) # HashesOf(km)
            => IF km.RequireOrder
               THEN GetCombinedKey(other, password) # GetCombinedKey(km, password)
               ELSE GetCombinedKey(other, password) = GetCombinedKey(km, password)

(***************************************************************************)
(* Properties of the folder pipeline.                                      *)
(***************************************************************************)
FolderDecrypted ==
    /\ job.pc = "decrypted"
    /\ job.via = "decryptFileAuto"
    /\ dirs.src.kind = "dir"
    /\ job.encErr = "nil"
    /\ job.decPassword = job.password

EntriesOf(tree) == {tree[i] : i \in DOMAIN tree}

\* C9: when a folder has been encrypted by encryptDirectory and its container, with the
\* sidecar as encryptDirectory wrote it, is decrypted by decryptFileAuto with the same
\* password, decryptFileAuto succeeds and the output path is a directory that holds
\* exactly the paths and the file contents of the folder.
C9_ArchiveRoundTrip ==
    (FolderDecrypted /\ job.sidecar = "written")
        => /\ job.decErr = "nil"
           /\ dirs.out = DirOf(EntriesOf(dirs.src.tree))

\* C10: when the sidecar holds an archive_sha256 that is not the hash of the decrypted
\* archive, decryptFileAuto returns the hash-mismatch error, the output path is neither
\* created nor written, and the sidecar is still in place.
C10_HashMismatchAborts ==
    (FolderDecrypted /\ job.sidecar = "wrong hash")
        => /\ job.decErr = "archive hash mismatch"
           /\ dirs.out = NoPath
           /\ dirs.meta.exists

\* C15: once encryptDirectory, decryptDirectory or decryptFileAuto has returned, with
\* success or with an error, neither <output>.temp.tar.gz nor <container>.__dec_tmp__
\* exists.
C15_TempFilesRemoved ==
    job.pc \in {"encrypted", "decrypted"}
        => (~dirs.tempArchive.exists /\ ~dirs.tempDecrypted.exists)

\* decryptFileAuto has returned the hash-mismatch error: the decrypted archive had been
\* written to the temporary file before
C15_Witness ==
    /\ job.pc = "decrypted"
    /\ job.via = "decryptFileAuto"
    /\ job.decErr = "archive hash mismatch"
    /\ ~dirs.tempDecrypted.exists


\* C16: over one job the processed values handed to the progress callback never decrease,
\* across the archive and encrypt phases of a folder encryption and across the decrypt
\* and extract phases of decryptFileAuto.
C16_ProgressMonotone ==
    \A i, j \in DOMAIN job.progress : i <= j => job.progress[i] <= job.progress[j]


RecognizedSuffixes == {extGpg, extPgp, extHades, extHadescrypt, extHeistcrypt}

\* C19: defaultOutputPathForDecrypt returns the input path without its recognized
\* encrypted suffix when the path, compared without regard to case, ends in one, and the
\* input path plus .dec otherwise; the result always differs from the input path.
C19_OutputPathDiffers ==
    naming.pc = "done" =>
        LET inPath     == naming.inPath
            outPath    == naming.outPath
            recognized == {suffix \in RecognizedSuffixes :
                              HasSuffix(StringsToLower(inPath), suffix)}
        IN /\ recognized # {} =>
                  \E suffix \in recognized :
                      outPath = SubSeq(inPath, 1, Len(inPath) - Len(suffix))
           /\ recognized = {} => outPath = inPath \o extDec
           /\ outPath # inPath


(***************************************************************************)
(* Properties of the application.                                          *)
(***************************************************************************)
\* C11: an original input is removed only when delete_after is set and the operation on
\* that item succeeded; after a failed single-file operation the original still exists.
C11_RemovedOnlyAfterSuccess ==
    /\ \A r \in app.removed : r.deleteAfter /\ r.err = "nil"
    /\ \A k \in DOMAIN app.workers :
           LET w == app.workers[k] IN
           (w.pc = "done" /\ w.ctx = "single" /\ w.encErr # "nil")
               => Stat(app.fs, app.selectedPath)

\* C12: when the cancel flag is set between two chunk writes of a file, the worker writes
\* at most one more chunk and the job ends with the error "canceled".
C12_CancelWithinOneChunk ==
    \A k \in DOMAIN app.workers :
        LET w == app.workers[k] IN
        w.midFile => /\ w.chunksAfterCancel <= 1
                     /\ w.pc = "done" => w.encErr = "canceled"

\* C13: once cancel was requested while a batch or recursive job runs, its worker begins
\* no further item or file, whatever the user presses afterwards.
C13_NoItemAfterCancel ==
    \A k \in DOMAIN app.workers : app.workers[k].lateStarts = 0

\* C14: in a batch job no item is begun after an earlier item failed, a failure of
\* os.Stat on the item included.
C14_BatchStopsAtFirstError ==
    \A k \in DOMAIN app.workers : app.workers[k].afterFailure = {}

\* C17: an encrypt job encrypts no file whose name ends in .hadescrypt, .heistcrypt, .gpg
\* or .pgp, be it a selected item or a file met in a recursive walk, and the files a
\* successful job encrypted one by one are the files it counted.
C17_EncryptedNamesSkipped ==
    \A k \in DOMAIN app.workers :
        LET w == app.workers[k] IN
        /\ \A p \in w.encrypted : ~SkippedWhenCounting(p)
        /\ (w.pc = "done" /\ w.encErr = "nil" /\ ~w.archived) => w.encrypted = w.counted

\* C20: every history entry says "success" when the operation it records returned no
\* error, and "error" together with the error text when it returned one.
C20_HistoryMatchesOutcome ==
    \A i \in DOMAIN app.history :
        LET h == app.history[i] IN
        IF h.outcome = "nil" THEN h.Result = "success"
        ELSE h.Result = "error" /\ h.Error = h.outcome

(***************************************************************************)
(* Properties of package keyfiles.                                         *)
(***************************************************************************)
\* C21: AddKeyfile fails and leaves the list as it was when the path is a directory or an
\* empty file; on a file with content it appends exactly one (path, digest) entry.
C21_AddKeyfileRejects ==
    kmLast.op = "AddKeyfile" =>
        LET f == KeyDisk(kmLast.path) IN
        IF KeyIsDir(kmLast.path) \/ (f.exists /\ f.data = <<>>)
        THEN kmLast.err # "nil" /\ km.Keyfiles = kmLast.before
        ELSE IF f.exists
        THEN /\ kmLast.err = "nil"
             /\ km.Keyfiles = Append(kmLast.before, Keyfile(kmLast.path, Sha256Sum(f.data)))
        ELSE kmLast.err # "nil" /\ km.Keyfiles = kmLast.before

\* C30: MoveKeyfile with two valid indices puts the keyfile that was at fromIndex at
\* toIndex and keeps the others in their order (so the list is a permutation of what it
\* was); with an index out of range the list is unchanged.
C30_MoveKeyfilePlaces ==
    kmLast.op = "MoveKeyfile" =>
        LET before == kmLast.before
            valid  == 0..(Len(before) - 1)
        IN IF kmLast.fromIndex \in valid /\ kmLast.toIndex \in valid
           THEN /\ Len(km.Keyfiles) = Len(before)
                /\ km.Keyfiles[kmLast.toIndex + 1] = before[kmLast.fromIndex + 1]
                /\ RemoveAt(km.Keyfiles, kmLast.toIndex + 1)
                       = RemoveAt(before, kmLast.fromIndex + 1)
           ELSE km.Keyfiles = before

(***************************************************************************)
(* Properties of the chunk frames.                                         *)
(***************************************************************************)
\* the number of bytes EncryptFileWithMode wrote for chunk i of inFile (i counts from 0)
WrittenFor(i) ==
    LET n == min(ChunkSize, Len(inFile) - i * ChunkSize) IN
    Len(SealChunk(enc.mode, enc.password, enc.salt, NonceOf(enc.noncePrefix, i),
                  SubSeqFrom(inFile, i * ChunkSize + 1, n)))

\* C22: when DecryptFile is about to read chunk i of a container nobody changed, it reads
\* as many bytes as EncryptFileWithMode wrote for chunk i, and a decryption that ended
\* without error has read the container to its end.
C22_FramesAligned ==
    (enc.pc = "done" /\ enc.err = "nil" /\ tamper = NoTamper) =>
        /\ dec.pc = "loop" =>
              readCipherNeed(dec.mode, IF dec.i < LoopCount(dec) THEN dec.chunkSize
                                       ELSE dec.lastChunkSize) = WrittenFor(dec.i)
        /\ (dec.pc = "done" /\ dec.err = "nil") => dec.rdPos = Len(encFile.data)

(***************************************************************************)
(* Properties of DecryptFile's output.                                     *)
(***************************************************************************)
\* C25: once DecryptFile has created its output, the output holds exactly the plaintext
\* of the chunks opened so far, in order; when a chunk fails authentication nothing of it
\* is written, so a failure on the first chunk leaves the output empty.
C25_OnlyAuthenticatedWritten ==
    (dec.pc \in {"loop", "done"} /\ dec.chunkSize > 0) =>
        /\ outFile.exists
        /\ outFile.data = SubSeq(inFile, 1, dec.processed)
        /\ tamper.kind # "header" => dec.processed = min(Len(inFile), dec.i * ChunkSize)
        /\ (dec.err \notin {"", "nil"} /\ dec.i = 0) => outFile.data = <<>>

\* the tag of the second chunk was changed: the first chunk is in the output, the second
\* is not
C25_Witness ==
    /\ DecDone /\ EncOk /\ SamePassword
    /\ enc.mode = ModeAES256GCM
    /\ Len(inFile) = 2 * ChunkSize
    /\ tamper.kind = "body"
    /\ tamper.pos > headerLen + 2 * ChunkSize + gcmOverhead
    /\ dec.err = "authentication failed"
    /\ dec.i = 1
    /\ outFile.data = SubSeq(inFile, 1, ChunkSize)

\* the header DecryptFile is given does not pass validation: cut short, magic or version
\* changed, or a mode byte that is none of the three modes it knows
BadHeader ==
    \/ tamper.kind = "truncated"
    \/ tamper.kind = "header" /\ tamper.pos <= 5
    \/ encFile.exists /\ Len(encFile.data) >= 6 /\ encFile.data[6] \notin AeadModes

\* C26: when DecryptFile fails header validation, the file that was at the output path
\* before the call is still there, unchanged.
C26_HeaderErrorKeepsOutput ==
    (DecDone /\ BadHeader) => (dec.err # "nil" /\ outFile = File(oldOutput))

\* a container cut to five bytes, and one whose mode byte was set to 7
C26_Witness ==
    /\ DecDone /\ outFile = File(oldOutput)
    /\ \/ tamper = [kind |-> "truncated", pos |-> 5] /\ dec.err = "io"
       \/ tamper.kind = "header" /\ tamper.pos = 6 /\ encFile.data[6] = 7
              /\ dec.err = "unsupported encryption mode"

(***************************************************************************)
(* Properties of the folder pipeline's decryption.                         *)
(***************************************************************************)
\* C23: decryptFileAuto removes the sidecar only when it returns without error, after it
\* has extracted the archive and, the sidecar holding a hash, after that hash matched the
\* archive; on every error return the sidecar is still there.
C23_SidecarOutlivesErrors ==
    (/\ job.pc = "decrypted"
     /\ job.via = "decryptFileAuto"
     /\ job.sidecar \in {"written", "wrong hash", "upper case"}) =>
        /\ job.decErr # "nil" => dirs.meta.exists
        /\ ~dirs.meta.exists => /\ job.decErr = "nil"
                                /\ dirs.out.kind = "dir"
                                /\ job.sidecar # "wrong hash"

(***************************************************************************)
(* Properties of the containers a job writes.                              *)
(***************************************************************************)
\* the paths that hold a container an encrypt job wrote
JobContainers ==
    {p \in DOMAIN app.fs \ DOMAIN JobFiles :
        /\ IsRegular(app.fs, p)
        /\ Len(app.fs[p].data) >= headerLen
        /\ SubSeq(app.fs[p].data, 1, 4) = fileMagic}

\* C27: the mode byte of every container an encrypt job wrote is the mode selected for
\* the job, for a folder put into an archive as for a regular file.
C27_ModeByteIsSelected ==
    \A p \in JobContainers : app.fs[p].data[6] = app.encryptionMode

\* C28: a regular file encrypted as a single file in a single-layer mode comes back from
\* decryptFileAuto, given the same password, as a regular file with the original bytes,
\* whatever its content; the output is a directory only when a folder was encrypted.
C28_SingleFileComesBackAsFile ==
    (/\ job.pc = "decrypted"
     /\ job.via = "decryptFileAuto"
     /\ job.encErr = "nil"
     /\ job.decPassword = job.password
     /\ dirs.src.kind = "file"
     /\ dirs.container.data[6] \in {ModeAES256GCM, ModeChaCha20}) =>
        /\ job.decErr = "nil"
        /\ dirs.out = FileAt(dirs.src.data)

\* C29: when an encrypt job has ended without error, the container it wrote for each file
\* it encrypted still exists, also for the files of a directory item of a batch with
\* delete_after set.
C29_OutputsSurvive ==
    \A k \in DOMAIN app.workers :
        LET w == app.workers[k] IN
        (w.op = "encrypt" /\ w.pc = "done" /\ w.encErr = "nil") =>
            \A p \in w.encrypted :
                IsRegular(app.fs, defaultOutputPathForEncrypt(app.encryptionMode, p))

\* C24: when a batch decrypt job stops because an item failed, the last status the job posts
\* is the error status, never the success summary, and a success summary reports only the
\* number of items that completed
C24_ErrorStatusIsLast ==
    \A k \in DOMAIN app.workers :
        LET w == app.workers[k] IN
        (w.op = "decrypt" /\ app.selectedPaths # <<>> /\ w.pc = "done") =>
            LET last == w.posts[Len(w.posts)] IN
            /\ w.failed # {} => last.kind = "error"
            /\ last.kind = "summary" => last.items = w.completed

====
